---- MODULE Spec2Model ----
(***************************************************************************)
(* State-machine model of python-dvbv5: the ctypes wrappers of dvbv5/      *)
(* (property cache, delivery-system selection, scan, store) and the two    *)
(* example programs that drive them, examples/dvbv5-scan.py (run_scan and  *)
(* its check_frontend callback) and examples/dvbv5-zap-wrapper.py (parse,  *)
(* setup_frontend, check_frontend).                                        *)
(*                                                                         *)
(* The native library the wrappers call is an external collaborator: its   *)
(* return codes and the hardware status are inputs drawn with \E, and its  *)
(* documented effects (the wrappers' docstrings) are what the operators    *)
(* below apply.                                                            *)
(***************************************************************************)
EXTENDS Integers, Sequences, FiniteSets, TLC

(* ------------------------------ bounds -------------------------------- *)
\* timeout_multiply is drawn from 0..MaxMult
MaxMult == 2
\* the channel file of a scan session holds 1..MaxEntries transponders
MaxEntries == 2
\* cap of the tick counter of the zap loop, which the code never tests
CntCap == 3
\* number of property-store operations of the free-sequence flow
MaxOps == 4
\* the stats cache holds a value per DTV layer 0..MaxLayer
MaxLayer == 2

(* ------------------------- program constants -------------------------- *)
\* dvbv5-scan.py:20   while timeout_cnt < (40 * args['timeout_multiply'])
TicksPerMultiply == 40

\* dvb_frontend.py FEStatus
FE_NONE == 0
FE_HAS_SIGNAL == 1
FE_HAS_CARRIER == 2
FE_HAS_VITERBI == 4
FE_HAS_SYNC == 8
FE_HAS_LOCK == 16
FE_TIMEDOUT == 32
FE_REINIT == 64

\* dvb_frontend.py DVBv5PropertyCommand
DTV_FREQUENCY == 3
DTV_MODULATION == 4
DTV_DELIVERY_SYSTEM == 17

\* dvb_frontend.py FEDeliverySystem
SYS_UNDEFINED == 0
SYS_DVBC_ANNEX_A == 1
SYS_DVBT == 3
SYS_DVBS == 5
SYS_DVBS2 == 6
SYS_ATSC == 11
SYS_DVBT2 == 16

(* ------------------------------ helpers ------------------------------- *)
None == <<>>
Some(v) == <<v>>
IsSome(o) == Len(o) = 1
Val(o) == o[1]

\* status & bit, for a single-bit mask
HasBit(s, bit) == (s \div bit) % 2 = 1

\* The status words the hardware is let to report at a poll: nothing; every
\* informational bit without lock; full lock; timed out with signal.
StatusValues ==
    { FE_NONE,
      FE_HAS_SIGNAL + FE_HAS_CARRIER + FE_HAS_VITERBI + FE_HAS_SYNC + FE_REINIT,
      FE_HAS_SIGNAL + FE_HAS_CARRIER + FE_HAS_VITERBI + FE_HAS_SYNC + FE_HAS_LOCK,
      FE_TIMEDOUT + FE_HAS_SIGNAL }

Props == {DTV_FREQUENCY, DTV_MODULATION, DTV_DELIVERY_SYSTEM}

VARIABLES
    flow,             \* which program runs: "scan", "zap", "api", "expand",
                      \* "filter", "tables", "stats", "pids",
                      \* "props", "close"
    pc,               \* position of the program
    abort,            \* parms.abort, the shared cancellation flag
    cache,            \* the property cache of the frontend (parms)
    hw,               \* the parameters the hardware holds
    systems,          \* delivery systems the hardware supports
    statCache,        \* the cached DTV_STATUS, filled by dvb_fe_get_stats
    timeout_multiply, \* caller's patience factor
    status,           \* check_frontend: local status
    timeout_cnt,      \* check_frontend: local tick counter
    cfRet,            \* check_frontend: returned value (None while running)
    cfExit,           \* how check_frontend left its loop
    file,             \* the entries read from the channel file
    idx,              \* run_scan: position of the for loop in file
    handler,          \* run_scan: dvb_scan_handler (None or a descriptor)
    x,                \* run_scan: the DVBFile of the last dvb_store_channel
    req,              \* zap: the request (channel, freq, dvr)
    entry,            \* zap: the entry parse selected (None or an entry)
    k,                \* zap: parse's position in entry.props
    freq,             \* zap: setup_frontend's local freq
    nops,             \* api: operations done
    dev,              \* an opened device handle and the objects owning it
    hist              \* history of the run (observations, not program state)

vars == <<flow, dev, pc, abort, cache, hw, systems, statCache,
          timeout_multiply,
          status, timeout_cnt, cfRet, cfExit, file, idx, handler, x,
          req, entry, k, freq, nops, hist>>


(* --------------------------- channel file ----------------------------- *)
\* dvb_file.py:277-292  dvb_retrieve_entry_prop: the value of the first
\* property of the entry with that key; None stands for the KeyError.
dvb_retrieve_entry_prop(e, cmd) ==
    LET hits == {i \in 1..Len(e.props) : e.props[i][1] = cmd}
    IN  IF hits = {} THEN None
        ELSE Some(e.props[CHOOSE i \in hits : \A j \in hits : i <= j][2])

\* The i-th transponder of a scan file; with or without a DTV_FREQUENCY.
Transponder(i, hasFreq) ==
    [channel |-> None, vchannel |-> None,
     props |-> IF hasFreq
               THEN << <<DTV_DELIVERY_SYSTEM, SYS_DVBT>>,
                       <<DTV_FREQUENCY, 474000000 + 8000000 * (i - 1)>> >>
               ELSE << <<DTV_DELIVERY_SYSTEM, SYS_DVBT>> >>]

ScanFiles ==
    UNION { { [i \in 1..n |-> Transponder(i, f[i])] : f \in [1..n -> BOOLEAN] }
            : n \in 1..MaxEntries }

\* Files of the zap flow: a zap file with two named services, a channel
\* file whose entries carry no names (NULL strings), a file whose only
\* entry asks for a satellite system.
ZapFiles ==
    { << [channel |-> Some("a"), vchannel |-> Some("1"),
          props |-> << <<DTV_DELIVERY_SYSTEM, SYS_DVBT>>,
                       <<DTV_FREQUENCY, 474000000>> >>],
         [channel |-> Some("A"), vchannel |-> Some(""),
          props |-> << <<DTV_FREQUENCY, 482000000>>,
                       <<DTV_DELIVERY_SYSTEM, SYS_DVBT>>,
                       <<DTV_MODULATION, 1>> >>] >>,
      << [channel |-> None, vchannel |-> None,
          props |-> << <<DTV_DELIVERY_SYSTEM, SYS_DVBT>>,
                       <<DTV_FREQUENCY, 474000000>> >>] >>,
      << [channel |-> Some("B"), vchannel |-> Some("A"),
          props |-> << <<DTV_DELIVERY_SYSTEM, SYS_DVBS>>,
                       <<DTV_FREQUENCY, 474000000>> >>] >> }

ZapRequests ==
    [channel : {None, Some("A"), Some("b")},
     freq : {None, Some(474000000)},
     dvr : BOOLEAN]

\* dvb_v5_std.py DTVUserPropertyCommand, DVBSatPolarization
DTV_POLARIZATION == 256
POLARIZATION_OFF == 0
POLARIZATION_H == 1
POLARIZATION_V == 2

\* A transponder: delivery system, frequency, polarization (satellite only),
\* service id and transport stream id.
ListEntry(sys, f, pol, sid, tsid) ==
    [channel |-> None, vchannel |-> None,
     props |-> IF sys = SYS_DVBS
               THEN << <<DTV_DELIVERY_SYSTEM, sys>>, <<DTV_FREQUENCY, f>>,
                       <<DTV_POLARIZATION, pol>> >>
               ELSE << <<DTV_DELIVERY_SYSTEM, sys>>, <<DTV_FREQUENCY, f>> >>,
     service_id |-> sid, transport_id |-> tsid]

\* The accessor reading the transport stream id of the entry.
service_id_reads_transport_id(e) == e.transport_id

\* dvb_file.py:96-103  DVBEntry.service_id
service_id(e) == e.service_id

\* The deduplication key of an entry: delivery system and frequency, and
\* the polarization of a satellite transponder.
DedupKey(e) ==
    LET sys == dvb_retrieve_entry_prop(e, DTV_DELIVERY_SYSTEM)
        pol == dvb_retrieve_entry_prop(e, DTV_POLARIZATION)
    IN  << sys, dvb_retrieve_entry_prop(e, DTV_FREQUENCY),
           IF sys = Some(SYS_DVBS) THEN pol ELSE None >>

\* Transponder lists of a session, as read from a channel file (service id
\* 0 throughout, no key twice): empty, terrestrial, satellite.
ExpandFiles ==
    { <<>>,
      << ListEntry(SYS_DVBT, 474000000, POLARIZATION_OFF, 0, 0) >>,
      << ListEntry(SYS_DVBT, 474000000, POLARIZATION_OFF, 0, 0),
         ListEntry(SYS_DVBT, 482000000, POLARIZATION_OFF, 0, 0) >>,
      << ListEntry(SYS_DVBS, 474000000, POLARIZATION_H, 0, 0) >> }

\* The transponders a NIT lists: one new one; a known one, a new one and
\* the new one again; the other polarization of a satellite frequency and
\* a terrestrial one.
NitTables ==
    { << ListEntry(SYS_DVBT, 482000000, POLARIZATION_OFF, 0, 7) >>,
      << ListEntry(SYS_DVBT, 474000000, POLARIZATION_OFF, 0, 7),
         ListEntry(SYS_DVBT, 490000000, POLARIZATION_OFF, 0, 8),
         ListEntry(SYS_DVBT, 490000000, POLARIZATION_OFF, 0, 8) >>,
      << ListEntry(SYS_DVBS, 474000000, POLARIZATION_V, 0, 9),
         ListEntry(SYS_DVBS, 474000000, POLARIZATION_H, 0, 9) >> }

\* The descriptor of a scanned transponder with its NIT.
NitDescriptor(nit) == [tp |-> 1, services |-> 1, nit |-> nit]

\* The capability lists the hardware is let to have.
SystemSets == { {SYS_DVBT}, {SYS_DVBT2}, {SYS_DVBS2, SYS_DVBC_ANNEX_A} }

(* --------------------------- property store --------------------------- *)
\* Return codes of a native call: success, a negative and a positive error.
NativeRets == {0 - 1, 0, 1}

Parms == [cache |-> cache, hw |-> hw, raised |-> FALSE]

\* a store that also hands the value to the hardware
dvb_fe_store_parm_writes_hw(p, cmd, value, ret) ==
    IF ret < 0 THEN [p EXCEPT !.raised = TRUE]
    ELSE IF ret = 0 THEN [p EXCEPT !.cache = [@ EXCEPT ![cmd] = value],
                                   !.hw = [@ EXCEPT ![cmd] = value]]
    ELSE p

\* dvb_fe.py:127-138  dvb_fe_store_parm: the value goes to the cache when the
\* native call succeeds; only a negative return raises.
dvb_fe_store_parm(p, cmd, value, ret) ==
    IF ret < 0 THEN [p EXCEPT !.raised = TRUE]
    ELSE IF ret = 0 THEN [p EXCEPT !.cache = [@ EXCEPT ![cmd] = value]]
    ELSE p

\* What the hardware applies of a cache: every value, or every value but a
\* modulation it does not support, for which it applies 0 instead.
AppliedSets(c) ==
    {c, [c EXCEPT ![DTV_MODULATION] = 0]}

\* dvb_fe.py:141-151  dvb_fe_set_parms: writes the cache to the hardware; at
\* return the cache holds what the hardware applied; any non-zero return
\* raises.
dvb_fe_set_parms(p, applied, ret) ==
    IF ret # 0 THEN [p EXCEPT !.raised = TRUE]
    ELSE [p EXCEPT !.hw = applied, !.cache = applied]

\* What dvb_fe_get_parms can read: the hardware's values when locked, and
\* otherwise values that reflect nothing (all 0 here).
HwViews(h) == {h, [q \in Props |-> 0]}

\* dvb_fe.py:154-164  dvb_fe_get_parms: the hardware's values go to the cache.
dvb_fe_get_parms(p, view, ret) ==
    IF ret # 0 THEN [p EXCEPT !.raised = TRUE]
    ELSE [p EXCEPT !.cache = view]

\* a read that asks the hardware's value instead of the cache
dvb_fe_retrieve_parm_from_hw(p, cmd, ret) ==
    IF ret # 0 THEN None ELSE Some(p.hw[cmd])

\* dvb_fe.py:110-124  dvb_fe_retrieve_parm: the cached value; None stands for
\* the ValueError of a non-zero return.
dvb_fe_retrieve_parm(p, cmd, ret) ==
    IF ret # 0 THEN None ELSE Some(p.cache[cmd])

\* The substitution the resolver knows (spec 4.2 (b)): a first-generation
\* request is served by the second-generation system of the same standard.
SecondGeneration(d) ==
    IF d = SYS_DVBT THEN SYS_DVBT2
    ELSE IF d = SYS_DVBS THEN SYS_DVBS2
    ELSE SYS_UNDEFINED

\* Native dvb_set_compat_delivery_system (spec 4.2): the requested system if
\* supported, else its substitute if supported, else None (a negative return).
Resolve(d, s) ==
    IF d \in s THEN Some(d)
    ELSE IF SecondGeneration(d) \in s THEN Some(SecondGeneration(d))
    ELSE None

\* a wrapper that drops the native return value
dvb_set_compat_delivery_system_unchecked(p, desired) ==
    LET r == Resolve(desired, systems)
    IN  IF ~IsSome(r) THEN p
        ELSE [p EXCEPT !.cache = [@ EXCEPT ![DTV_DELIVERY_SYSTEM] = Val(r)]]

\* dvb_fe.py:104-107  dvb_set_compat_delivery_system: raises when the native
\* call returns a negative value; else the resolved system is the one of the
\* property store.
dvb_set_compat_delivery_system(p, desired) ==
    LET r == Resolve(desired, systems)
    IN  IF ~IsSome(r) THEN [p EXCEPT !.raised = TRUE]
        ELSE [p EXCEPT !.cache = [@ EXCEPT ![DTV_DELIVERY_SYSTEM] = Val(r)]]

(* ------------------------------ history ------------------------------- *)
HistInit ==
    [ commitCalled |-> FALSE,     \* dvb_fe_set_parms reached the hardware
      storedCmds |-> {},          \* keys given to dvb_fe_store_parm
      compatCalled |-> FALSE,     \* dvb_set_compat_delivery_system was called
      compatFailed |-> FALSE,     \* ... and the resolution failed
      afterFail |-> FALSE,        \* a store, commit or filter ran after that
      filters |-> FALSE,          \* a filter-start command was issued
      scanned |-> {},             \* transponders given to dvb_dev_scan
      failed |-> {},              \* transponders whose scan or store failed
      storedOk |-> {},            \* transponders whose store succeeded
      polls |-> 0,                \* status polls of this check_frontend run
      lockRead |-> FALSE,         \* a status read of this run had full lock
      statsFresh |-> FALSE,       \* dvb_fe_get_stats was called in this tick
      staleRead |-> FALSE,        \* a stats read had no such call before it
      displayed |-> FALSE,        \* the display just made read DTV_STATUS
      failedTickEnded |-> FALSE,  \* the tick just polled: its get_stats
                                  \* failed and it ended the loop
      failedTickUncounted |-> FALSE, \* ... or it went on to the next tick
                                     \* without being counted
      abortInLoop |-> FALSE,      \* the flag was set while a loop was polling
      ticksAfterAbort |-> 0,      \* ticks ended since the flag was set (0..3)
      tuneAfterAbort |-> FALSE,   \* a tune commit began with the flag set
      lastWritten |-> [q \in Props |-> 0],  \* newest of set/commit/refresh
      synced |-> [q \in Props |-> 0],       \* newest of commit/refresh
      lastRead |-> None,          \* the last property read and its context
      before |-> None,            \* the list before the last expansion
      expandRuns |-> 0,           \* expansions with this descriptor (0..2)
      grew |-> FALSE,             \* the first of them appended an entry
      afterFirst |-> None,        \* the list after the first of them
      filterCall |-> None,        \* the last filter start: handle, pid, outcome
      inProgress |-> {},          \* tables whose acquisition is in progress
      requested |-> {},           \* tables whose acquisition has begun
      arrived |-> {},             \* tables that arrived
      ended |-> {},               \* tables whose acquisition has ended
      layerRead |-> None,         \* the last per-layer stats read
      pidCalls |-> None,          \* the filter starts main made, and for what
      propsRead |-> None,         \* the last DVBEntry.props read
      picked |-> None ]           \* position parse selected in a file it
                                  \* read (0: it raised instead)

\* A tick of a polling loop ends (its sleep is over).
TickEnds(h) ==
    IF abort /\ h.ticksAfterAbort < 3
    THEN [h EXCEPT !.ticksAfterAbort = @ + 1] ELSE h

(* ------------------------------- Init --------------------------------- *)
\* No device handle: the DVBv5Descriptor (wrapper) is not alive, it holds
\* no DVBOpenDescriptor (held), no other reference to one exists (ext), no
\* DVBOpenDescriptor is alive (open), the native close was never called.
NoDevice ==
    [wrapper |-> FALSE, held |-> FALSE, ext |-> 0, open |-> FALSE,
     closes |-> 0]

HwInit == [q \in Props |-> 0]

NoRequest == [channel |-> None, freq |-> None, dvr |-> FALSE]

InitCommon ==
    /\ abort = FALSE
    /\ cache = HwInit
    /\ hw = HwInit
    /\ statCache = FE_NONE
    /\ status = FE_NONE
    /\ timeout_cnt = 0
    /\ cfRet = None
    /\ cfExit = "none"
    /\ x = None
    /\ entry = None
    /\ k = 1
    /\ freq = None
    /\ nops = 0
    /\ hist = HistInit

\* dvbv5-scan.py main -> run_scan(dvb, dmx_dev, confpath, timeout_multiply)
InitScan ==
    /\ handler = None
    /\ flow = "scan"
    /\ pc = "rs_read"
    /\ file \in ScanFiles
    /\ timeout_multiply \in 0..MaxMult
    /\ systems = {SYS_DVBT}
    /\ req = NoRequest

\* dvbv5-zap-wrapper.py main, at its call of parse
InitZap ==
    /\ handler = None
    /\ flow = "zap"
    /\ pc = "zp_parse"
    /\ file \in ZapFiles
    /\ req \in ZapRequests
    /\ systems \in SystemSets
    /\ timeout_multiply = 1

\* a caller of the property-store wrappers of dvb_fe.py
InitApi ==
    /\ handler = None
    /\ flow = "api"
    /\ pc = "api"
    /\ file = <<>>
    /\ req = NoRequest
    /\ systems = {SYS_DVBT}
    /\ timeout_multiply = 1

\* a caller of dvb_add_scaned_transponders holding a transponder list and
\* the descriptor of a scanned transponder
InitExpand ==
    /\ flow = "expand"
    /\ pc = "xp"
    /\ file \in ExpandFiles
    /\ handler \in {Some(NitDescriptor(nit)) : nit \in NitTables}
    /\ req = NoRequest
    /\ systems = {SYS_DVBT}
    /\ timeout_multiply = 1

\* a caller of dvb_dev_dmx_set_pesfilter
InitFilter ==
    /\ flow = "filter"
    /\ pc = "fl"
    /\ handler = None
    /\ file = <<>>
    /\ req = NoRequest
    /\ systems = {SYS_DVBT}
    /\ timeout_multiply = 1

\* dvb_dev_scan after the lock: idx services are in the PAT of the
\* transponder, which is of the DVB or of the ATSC family
InitTables ==
    /\ flow = "tables"
    /\ pc = "ts"
    /\ handler = None
    /\ file = <<>>
    /\ req = NoRequest
    /\ systems \in {{SYS_DVBT}, {SYS_ATSC}}
    /\ timeout_multiply = 1

\* a caller of dvb_fe_retrieve_stats_layer
InitStats ==
    /\ flow = "stats"
    /\ pc = "st"
    /\ handler = None
    /\ file = <<>>
    /\ req = NoRequest
    /\ systems = {SYS_DVBT}
    /\ timeout_multiply = 1

\* The elementary streams of the entry parse selected: video PIDs, audio
\* PIDs, other PIDs, each list in the order of the channel file.
PidEntries ==
    [video_pid : {<<>>, <<256>>, <<256, 512>>},
     audio_pid : {<<>>, <<257>>, <<257, 258>>},
     other_el_pid : {<<>>, <<300>>}]

\* The keyword arguments of main that steer the filters; None is a stream
\* index that was not given.
PidOptions ==
    [all_pids : BOOLEAN, extra_pids : BOOLEAN, dvr : BOOLEAN,
     n_vpid : {None} \cup {Some(n) : n \in (0 - 1)..2},
     n_apid : {None} \cup {Some(n) : n \in (0 - 1)..2}]

\* dvbv5-zap-wrapper.py main at line 203, the frontend set up: the entry
\* parse returned (dvb_entry) and the keyword arguments of main
InitPids ==
    /\ flow = "pids"
    /\ pc = "pf"
    /\ handler = None
    /\ file \in {<<e>> : e \in PidEntries}
    /\ req \in PidOptions
    /\ systems = {SYS_DVBT}
    /\ timeout_multiply = 1

\* a caller of DVBEntry.props
InitProps ==
    /\ flow = "props"
    /\ pc = "pr"
    /\ handler = None
    /\ file = <<>>
    /\ req = NoRequest
    /\ systems = {SYS_DVBT}
    /\ timeout_multiply = 1

\* DVBv5.dev_open returned a DVBv5Descriptor (DVBv5.py:64-65); the
\* DVBOpenDescriptor it wraps is referenced by it alone or by the caller too
InitClose ==
    /\ flow = "close"
    /\ pc = "dc"
    /\ handler = None
    /\ file = <<>>
    /\ req = NoRequest
    /\ systems = {SYS_DVBT}
    /\ timeout_multiply = 1
    /\ dev \in {[NoDevice EXCEPT !.wrapper = TRUE, !.held = TRUE,
                                 !.open = TRUE, !.ext = e] : e \in 0..1}

Init ==
    /\ InitCommon
    /\ \/ InitScan /\ idx = 1 /\ dev = NoDevice
       \/ InitZap /\ idx = 1 /\ dev = NoDevice
       \/ InitApi /\ idx = 1 /\ dev = NoDevice
       \/ InitExpand /\ idx = 1 /\ dev = NoDevice
       \/ InitFilter /\ idx = 1 /\ dev = NoDevice
       \/ InitStats /\ idx = 1 /\ dev = NoDevice
       \/ InitPids /\ idx = 1 /\ dev = NoDevice
       \/ InitProps /\ idx = 1 /\ dev = NoDevice
       \/ InitClose /\ idx = 1
       \/ InitTables /\ idx \in 0..MaxEntries /\ dev = NoDevice

(* ----------------------- the concurrent context ----------------------- *)
\* the positions inside the two check_frontend loops
LoopPcs == {"cf_while", "cf_poll", "cf_sleep", "zcf_poll", "zcf_sleep"}

Running ==
    pc \notin {"rs_done", "rs_raised", "zp_done", "zp_raised", "api", "xp",
               "fl", "ts", "st", "pf", "pf_done", "pf_raised",
               "pr", "pr_done", "dc"}

\* DVBv5FEParms.abort setter (dvb_fe.py:97-99), from another context
SetAbort ==
    /\ Running
    /\ ~abort
    /\ abort' = TRUE
    /\ hist' = [hist EXCEPT !.abortInLoop = pc \in LoopPcs]
    /\ UNCHANGED <<flow, dev, pc, cache, hw, systems, statCache, timeout_multiply,
                   status, timeout_cnt, cfRet, cfExit, file, idx, handler, x,
                   req, entry, k, freq, nops>>

(* ---------------------- dvbv5-scan.py: run_scan ----------------------- *)
scanLocals == <<status, timeout_cnt, cfRet, cfExit>>
zapLocals == <<req, entry, k, freq>>
storeVars == <<cache, hw>>
fixed == <<flow, dev, systems, timeout_multiply, file, nops>>

\* lines 59-63: dvb_read_file_format; a failure ends run_scan
RsRead ==
    /\ flow = "scan" /\ pc = "rs_read"
    /\ \E ok \in BOOLEAN : pc' = IF ok THEN "rs_open" ELSE "rs_done"
    /\ UNCHANGED <<abort, statCache, idx, handler, x, hist>>
    /\ UNCHANGED <<scanLocals, zapLocals, storeVars, fixed>>

\* lines 65-69: dvb.dev_open(demux); a failure ends run_scan
RsOpen ==
    /\ flow = "scan" /\ pc = "rs_open"
    /\ \E ok \in BOOLEAN : pc' = IF ok THEN "rs_loop" ELSE "rs_done"
    /\ UNCHANGED <<abort, statCache, idx, handler, x, hist>>
    /\ UNCHANGED <<scanLocals, zapLocals, storeVars, fixed>>

\* lines 71-80: the for loop's head and the frequency lookup; an entry
\* without frequency is skipped
RsLoop ==
    /\ flow = "scan" /\ pc = "rs_loop"
    /\ IF idx > Len(file)
       THEN pc' = "rs_done" /\ idx' = idx
       ELSE IF ~IsSome(dvb_retrieve_entry_prop(file[idx], DTV_FREQUENCY))
       THEN pc' = "rs_loop" /\ idx' = idx + 1
       ELSE pc' = "rs_scan" /\ idx' = idx
    /\ UNCHANGED <<abort, statCache, handler, x, hist>>
    /\ UNCHANGED <<scanLocals, zapLocals, storeVars, fixed>>

\* The entry's properties copied to the cache, the delivery system resolved.
TunedCache(c, e) ==
    [q \in Props |->
        IF q = DTV_DELIVERY_SYSTEM
        THEN LET r == Resolve(Val(dvb_retrieve_entry_prop(e, q)), systems)
             IN  IF IsSome(r) THEN Val(r) ELSE c[q]
        ELSE IF IsSome(dvb_retrieve_entry_prop(e, q))
        THEN Val(dvb_retrieve_entry_prop(e, q)) ELSE c[q]]

\* line 84, dvb_dev.py:398-401: dvb_dev_scan enters the native scan, which
\* tunes (commit of the entry's parameters, spec 4.3 Idle -> Tuning) and then
\* calls the check_frontend callback (lines 18-19 of it: the locals).
RsScan ==
    /\ flow = "scan" /\ pc = "rs_scan"
    /\ \E ret \in NativeRets :
       \E applied \in AppliedSets(TunedCache(cache, file[idx])) :
         LET p == dvb_fe_set_parms(
                     [Parms EXCEPT !.cache = TunedCache(cache, file[idx])],
                     applied, ret)
         IN  /\ cache' = p.cache
             /\ hw' = p.hw
             /\ hist' = [hist EXCEPT
                   !.scanned = @ \cup {idx},
                   !.commitCalled = TRUE,
                   !.tuneAfterAbort = @ \/ abort,
                   !.polls = IF p.raised THEN @ ELSE 0,
                   !.lockRead = @ /\ p.raised,
                   !.lastWritten = p.cache,
                   !.synced = IF p.raised THEN @ ELSE p.cache]
             /\ IF p.raised
                THEN /\ handler' = None
                     /\ pc' = "rs_after"
                     /\ UNCHANGED scanLocals
                ELSE /\ handler' = handler
                     /\ pc' = "cf_while"
                     /\ status' = FE_NONE
                     /\ timeout_cnt' = 0
                     /\ cfRet' = None
                     /\ cfExit' = "none"
    /\ UNCHANGED <<abort, statCache, idx, x>>
    /\ UNCHANGED <<zapLocals, fixed>>

(* ------------------ dvbv5-scan.py: check_frontend --------------------- *)
\* the loop test one tick too patient
LoopContinuesOffByOne(cnt, m) == cnt <= TicksPerMultiply * m

\* line 20: the while condition
LoopContinues(cnt, m) == cnt < TicksPerMultiply * m

\* a lock test that also takes the timed-out bit
LockOrTimedOutTest(s) == HasBit(s, FE_HAS_LOCK) \/ HasBit(s, FE_TIMEDOUT)

\* lines 34 and 40 (zap: 126): status & FE_HAS_LOCK
LockTest(s) == HasBit(s, FE_HAS_LOCK)

\* line 22: the value returned when the abort flag is observed
AbortReturn == 0

\* the return after the loop giving 0 whatever the status
FinalReturnZero(s) == 0

\* the return after the loop giving -1 whatever the status
FinalReturnMinusOne(s) == 0 - 1

\* line 40: return 0 if status & FE_HAS_LOCK else -1
FinalReturn(s) == IF LockTest(s) THEN 0 ELSE 0 - 1

\* lines 20-22: the loop test, then the abort check of the tick
CfWhile ==
    /\ flow = "scan" /\ pc = "cf_while"
    /\ IF LoopContinues(timeout_cnt, timeout_multiply)
       THEN IF abort
            THEN /\ cfRet' = Some(AbortReturn)
                 /\ cfExit' = "abort"
                 /\ pc' = "nat_tables"
            ELSE /\ pc' = "cf_poll"
                 /\ UNCHANGED <<cfRet, cfExit>>
       ELSE /\ pc' = "cf_ret"
            /\ cfExit' = "exhausted"
            /\ cfRet' = cfRet
    /\ UNCHANGED <<abort, statCache, status, timeout_cnt, idx, handler, x, hist>>
    /\ UNCHANGED <<zapLocals, storeVars, fixed>>

\* dvb_fe.py:204-211  dvb_fe_get_stats: the hardware's status goes to the
\* stats cache; a non-zero return raises and leaves the cache alone
dvb_fe_get_stats(sc, hwStatus, ret) ==
    IF ret # 0 THEN [cache |-> sc, raised |-> TRUE]
    ELSE [cache |-> hwStatus, raised |-> FALSE]

\* dvb_fe.py:186-201  dvb_fe_retrieve_stats(DTV_STATUS): the cached status;
\* None stands for the ValueError of a non-zero return
dvb_fe_retrieve_stats(sc, ret) ==
    IF ret # 0 THEN None ELSE Some(sc)

\* a call of dvb_fe_get_stats, failed or not
StatsRefreshCalled(h) == [h EXCEPT !.statsFresh = TRUE]

\* a call of dvb_fe_retrieve_stats: it is stale when no dvb_fe_get_stats was
\* called since the tick began or since the last read
StatsRead(h) ==
    [h EXCEPT !.staleRead = @ \/ ~h.statsFresh, !.statsFresh = FALSE]

\* the tick is over (its sleep): a refresh does not carry to the next tick
StatsTickOver(h) == [h EXCEPT !.statsFresh = FALSE]

\* a tick that reads the status without refreshing it
PollStatsNoRefresh(h) == StatsRead(h)

\* dvbv5-scan.py lines 24-32: dvb_fe_get_stats, then dvb_fe_retrieve_stats,
\* both called in every tick whatever the first one did
PollStats(h) == StatsRead(StatsRefreshCalled(h))

\* lines 24-35: the poll (a failure is printed and the tick goes on), the
\* status read (a failure keeps the old status) and the lock test. Nothing
\* here reads the abort flag: the three statements are one step.
CfPoll ==
    /\ flow = "scan" /\ pc = "cf_poll"
    /\ \E ret1 \in NativeRets : \E hwStatus \in StatusValues :
       \E ret2 \in NativeRets :
         LET g == dvb_fe_get_stats(statCache, hwStatus, ret1)
             sc == g.cache
             r == dvb_fe_retrieve_stats(sc, ret2)
             s == IF IsSome(r) THEN Val(r) ELSE status
         IN  /\ statCache' = sc
             /\ status' = s
             /\ hist' = [PollStats(hist) EXCEPT
                   !.polls = @ + 1,
                   !.lockRead = @ \/ (IsSome(r) /\ HasBit(Val(r), FE_HAS_LOCK)),
                   !.failedTickEnded = g.raised /\ LockTest(s)]
             /\ IF LockTest(s)
                THEN pc' = "cf_ret" /\ cfExit' = "break"
                ELSE pc' = "cf_sleep" /\ cfExit' = cfExit
    /\ UNCHANGED <<abort, timeout_cnt, cfRet, idx, handler, x>>
    /\ UNCHANGED <<zapLocals, storeVars, fixed>>

\* lines 37-38: sleep, then the tick counter
CfSleep ==
    /\ flow = "scan" /\ pc = "cf_sleep"
    /\ timeout_cnt' = timeout_cnt + 1
    /\ pc' = "cf_while"
    /\ hist' = StatsTickOver(TickEnds(hist))
    /\ UNCHANGED <<abort, statCache, status, cfRet, cfExit, idx, handler, x>>
    /\ UNCHANGED <<zapLocals, storeVars, fixed>>

\* line 40: the return after the loop
CfRet ==
    /\ flow = "scan" /\ pc = "cf_ret"
    /\ cfRet' = Some(FinalReturn(status))
    /\ pc' = "nat_tables"
    /\ hist' = [hist EXCEPT !.failedTickEnded = FALSE]
    /\ UNCHANGED <<abort, statCache, status, timeout_cnt, cfExit, idx, handler,
                   x>>
    /\ UNCHANGED <<zapLocals, storeVars, fixed>>

\* The terminal state of the acquisition, in the spec's words.
Outcome ==
    CASE cfExit = "break" -> "Locked"
      [] cfExit = "exhausted" -> "TimedOut"
      [] cfExit = "abort" -> "Aborted"
      [] OTHER -> "Polling"

\* Callback contract (spec 6): 0 lets the native scan go on to the tables,
\* any other value stops it.
CallbackProceeds(rc) == rc = 0

\* The Scan Descriptor of transponder tp (spec 4.4): a table that never
\* arrived is left out; without PAT no service is resolved.
ScanDescriptor(tp, patArrived) ==
    [tp |-> tp, services |-> IF patArrived THEN 1 ELSE 0]

\* dvb_dev.py:393-404: the callback's value goes back to the native scan,
\* which returns a descriptor or NULL; NULL becomes None. PAT arrives within
\* its budget or never does.
NatTables ==
    /\ flow = "scan" /\ pc = "nat_tables"
    /\ IF CallbackProceeds(Val(cfRet))
       THEN \E res \in {None} \cup
                       {Some(ScanDescriptor(idx, pat)) : pat \in BOOLEAN} :
               handler' = res
       ELSE handler' = None
    /\ pc' = "rs_after"
    /\ UNCHANGED <<abort, statCache, idx, x, hist>>
    /\ UNCHANGED <<scanLocals, zapLocals, storeVars, fixed>>

\* run_scan going on after the scan without looking at the abort flag
RsAfterNoAbortCheck ==
    /\ flow = "scan" /\ pc = "rs_after"
    /\ IF ~IsSome(handler)
       THEN /\ pc' = "rs_loop"
            /\ idx' = idx + 1
            /\ hist' = [hist EXCEPT !.failed = @ \cup {idx}]
       ELSE pc' = "rs_store" /\ UNCHANGED <<idx, hist>>
    /\ UNCHANGED <<abort, statCache, handler, x>>
    /\ UNCHANGED <<scanLocals, zapLocals, storeVars, fixed>>

\* lines 85-90: abort ends the session, no descriptor skips the entry
RsAfter ==
    /\ flow = "scan" /\ pc = "rs_after"
    /\ IF abort
       THEN pc' = "rs_done" /\ UNCHANGED <<idx, hist>>
       ELSE IF ~IsSome(handler)
       THEN /\ pc' = "rs_loop"
            /\ idx' = idx + 1
            /\ hist' = [hist EXCEPT !.failed = @ \cup {idx}]
       ELSE pc' = "rs_store" /\ UNCHANGED <<idx, hist>>
    /\ UNCHANGED <<abort, statCache, handler, x>>
    /\ UNCHANGED <<scanLocals, zapLocals, storeVars, fixed>>

\* dvb_file.py:295-322  dvb_store_channel: a fresh file pointer is handed to
\* the native store on every call, so the DVBFile returned holds the
\* services of this descriptor; None stands for the Exception of ret # 0.
dvb_store_channel(desc, ret) ==
    IF ret # 0 THEN None ELSE Some({desc.tp})

\* line 93: x = dvb_store_channel(...); an exception leaves run_scan
RsStore ==
    /\ flow = "scan" /\ pc = "rs_store"
    /\ \E ret \in NativeRets :
         LET r == dvb_store_channel(Val(handler), ret)
         IN  IF IsSome(r)
             THEN /\ x' = r
                  /\ idx' = idx + 1
                  /\ pc' = "rs_loop"
                  /\ hist' = [hist EXCEPT !.storedOk = @ \cup {idx}]
             ELSE /\ x' = x
                  /\ idx' = idx
                  /\ pc' = "rs_raised"
                  /\ hist' = [hist EXCEPT !.failed = @ \cup {idx}]
    /\ UNCHANGED <<abort, statCache, handler>>
    /\ UNCHANGED <<scanLocals, zapLocals, storeVars, fixed>>

ScanNext ==
    \/ RsRead \/ RsOpen \/ RsLoop \/ RsScan
    \/ CfWhile \/ CfPoll \/ CfSleep \/ CfRet
    \/ NatTables \/ RsAfter \/ RsStore

(* -------------------- dvbv5-zap-wrapper.py: parse --------------------- *)
\* str.lower() on the names of the files above
Lower(str) == IF str = "A" THEN "a" ELSE IF str = "B" THEN "b" ELSE str

\* The first position at which a sequence of step results does not say
\* "next"; 0 if none.
FirstStop(steps) ==
    LET stops == {i \in 1..Len(steps) : steps[i] # "next"}
    IN  IF stops = {} THEN 0
        ELSE CHOOSE i \in stops : \A j \in stops : i <= j

\* lines 35-43, one entry: DVBEntry.channel and .vchannel decode the C
\* string, which raises on a NULL one (dvb_file.py:132, 139)
ExactStep(e, channel) ==
    IF ~IsSome(e.channel) THEN "raise"
    ELSE IF Val(e.channel) # "" /\ IsSome(channel)
            /\ Val(e.channel) = Val(channel) THEN "match"
    ELSE IF ~IsSome(e.vchannel) THEN "raise"
    ELSE IF Val(e.vchannel) # "" /\ IsSome(channel)
            /\ Val(e.vchannel) = Val(channel) THEN "match"
    ELSE "next"

\* lines 46-51, one entry
LowerStep(e, channel) ==
    IF ~IsSome(e.channel) THEN "raise"
    ELSE IF Val(e.channel) # ""
            /\ Lower(Val(e.channel)) = Lower(Val(channel)) THEN "match"
    ELSE "next"

\* lines 59-65, one entry: a missing DTV_FREQUENCY raises KeyError
FreqStep(e, f) ==
    LET v == dvb_retrieve_entry_prop(e, DTV_FREQUENCY)
    IN  IF ~IsSome(v) THEN "raise"
        ELSE IF Val(v) = Val(f) THEN "match"
        ELSE "next"

\* a selection that falls back to the first entry instead of raising
ParseSelectFirst(f, r) == [raised |-> FALSE, at |-> 1]

\* lines 34-68: the entry parse selects, as [raised, at]
ParseSelect(f, r) ==
    LET n == Len(f)
        E1 == [i \in 1..n |-> ExactStep(f[i], r.channel)]
        E2 == [i \in 1..n |-> LowerStep(f[i], r.channel)]
        E3 == [i \in 1..n |-> FreqStep(f[i], r.freq)]
        i1 == FirstStop(E1)
        i2 == FirstStop(E2)
        i3 == FirstStop(E3)
        Raise == [raised |-> TRUE, at |-> 0]
        Found(i) == [raised |-> FALSE, at |-> i]
    IN  IF i1 # 0
        THEN IF E1[i1] = "raise" THEN Raise ELSE Found(i1)
        ELSE IF IsSome(r.channel) /\ i2 # 0
        THEN IF E2[i2] = "raise" THEN Raise ELSE Found(i2)
        ELSE IF IsSome(r.freq) /\ ~r.dvr /\ i3 # 0
        THEN IF E3[i3] = "raise" THEN Raise ELSE Found(i3)
        ELSE Raise

\* a copy loop that skips no key
ParseSkipsNothing(key) == FALSE

\* line 76: the key parse does not copy
ParseSkips(key) == key = DTV_DELIVERY_SYSTEM

zapRest == <<abort, statCache, idx, handler, x>>

\* main line 199 -> parse lines 32-68: read the file (a failure raises),
\* select the entry (no entry raises)
ZpParse ==
    /\ flow = "zap" /\ pc = "zp_parse"
    /\ \E readOk \in BOOLEAN :
         LET sel == ParseSelect(file, req)
         IN  /\ IF readOk /\ ~sel.raised
                THEN entry' = Some(file[sel.at]) /\ pc' = "zp_compat"
                ELSE entry' = entry /\ pc' = "zp_raised"
             /\ hist' = IF readOk THEN [hist EXCEPT !.picked = Some(sel.at)]
                                  ELSE hist
    /\ UNCHANGED <<req, k, freq>>
    /\ UNCHANGED <<zapRest, scanLocals, storeVars, fixed>>

\* parse lines 70-72: the entry's delivery system goes to the resolver; a
\* failure raises out of parse and out of main
ZpCompat ==
    /\ flow = "zap" /\ pc = "zp_compat"
    /\ LET system == dvb_retrieve_entry_prop(Val(entry), DTV_DELIVERY_SYSTEM)
           p == IF IsSome(system)
                THEN dvb_set_compat_delivery_system(Parms, Val(system))
                ELSE [Parms EXCEPT !.raised = TRUE]
       IN  /\ cache' = p.cache
           /\ hw' = p.hw
           /\ pc' = IF p.raised THEN "zp_raised" ELSE "zp_copy"
           /\ hist' = [hist EXCEPT
                 !.compatCalled = @ \/ IsSome(system),
                 !.compatFailed = @ \/ (IsSome(system)
                                    /\ ~IsSome(Resolve(Val(system), systems))),
                 !.lastWritten = p.cache]
    /\ k' = 1
    /\ UNCHANGED <<req, entry, freq>>
    /\ UNCHANGED <<zapRest, scanLocals, fixed>>

\* parse lines 74-80: copy the entry's properties to the cache, but the
\* delivery system; a store that raises leaves parse and main
ZpCopy ==
    /\ flow = "zap" /\ pc = "zp_copy"
    /\ IF k > Len(Val(entry).props)
       THEN /\ pc' = "zp_setup"
            /\ UNCHANGED <<k, cache, hw, hist>>
       ELSE LET key == Val(entry).props[k][1]
                value == Val(entry).props[k][2]
            IN  IF ParseSkips(key)
                THEN /\ k' = k + 1
                     /\ pc' = pc
                     /\ UNCHANGED <<cache, hw, hist>>
                ELSE \E ret \in NativeRets :
                       LET p == dvb_fe_store_parm(Parms, key, value, ret)
                       IN  /\ cache' = p.cache
                           /\ hw' = p.hw
                           /\ k' = k + 1
                           /\ pc' = IF p.raised THEN "zp_raised" ELSE pc
                           /\ hist' = [hist EXCEPT
                                 !.storedCmds = @ \cup {key},
                                 !.afterFail = @ \/ hist.compatFailed,
                                 !.lastWritten =
                                     IF ret = 0 THEN [@ EXCEPT ![key] = value]
                                     ELSE @]
    /\ UNCHANGED <<req, entry, freq>>
    /\ UNCHANGED <<zapRest, scanLocals, fixed>>

(* ------------- dvbv5-zap-wrapper.py: setup_frontend, main ------------- *)
\* What a property read is recorded with: the value read, the value the
\* newest set, commit or refresh gave the property, and the value the newest
\* commit or refresh gave it.
ReadRecord(cmd, v) ==
    Some([cmd |-> cmd, val |-> v,
          written |-> hist.lastWritten[cmd], synced |-> hist.synced[cmd]])

\* setup_frontend lines 136-141: read the frequency; a ValueError returns -1
\* and main returns
ZpSetupRead ==
    /\ flow = "zap" /\ pc = "zp_setup"
    /\ \E ret \in NativeRets :
         LET r == dvb_fe_retrieve_parm(Parms, DTV_FREQUENCY, ret)
         IN  IF IsSome(r)
             THEN /\ freq' = r
                  /\ pc' = "zp_commit"
                  /\ hist' = [hist EXCEPT
                        !.lastRead = ReadRecord(DTV_FREQUENCY, Val(r))]
             ELSE /\ freq' = freq
                  /\ pc' = "zp_done"
                  /\ hist' = hist
    /\ UNCHANGED <<req, entry, k>>
    /\ UNCHANGED <<zapRest, scanLocals, storeVars, fixed>>

\* setup_frontend lines 143-147: the commit; a ValueError returns -1 and
\* main returns
ZpSetupCommit ==
    /\ flow = "zap" /\ pc = "zp_commit"
    /\ \E ret \in NativeRets : \E applied \in AppliedSets(cache) :
         LET p == dvb_fe_set_parms(Parms, applied, ret)
         IN  /\ cache' = p.cache
             /\ hw' = p.hw
             /\ pc' = IF p.raised THEN "zp_done" ELSE "zp_filters"
             /\ hist' = [hist EXCEPT
                   !.commitCalled = TRUE,
                   !.tuneAfterAbort = @ \/ abort,
                   !.afterFail = @ \/ hist.compatFailed,
                   !.lastWritten = IF ret = 0 THEN applied ELSE @,
                   !.synced = IF ret = 0 THEN applied ELSE @]
    /\ UNCHANGED <<req, entry, k, freq>>
    /\ UNCHANGED <<zapRest, scanLocals, fixed>>

\* main lines 203-268: the filter-start commands for the entry's PIDs (none
\* when the entry has no PID to filter); a command that fails raises. Then
\* lines 270-271 and 108-109: check_frontend is entered.
ZpFilters ==
    /\ flow = "zap" /\ pc = "zp_filters"
    /\ \E issued \in BOOLEAN : \E ret \in NativeRets :
         /\ hist' = [hist EXCEPT
               !.filters = @ \/ issued,
               !.afterFail = @ \/ (issued /\ hist.compatFailed),
               !.polls = 0,
               !.lockRead = FALSE]
         /\ IF issued /\ ret < 0
            THEN pc' = "zp_raised" /\ UNCHANGED scanLocals
            ELSE /\ pc' = "zcf_poll"
                 /\ status' = FE_NONE
                 /\ timeout_cnt' = 0
                 /\ cfRet' = None
                 /\ cfExit' = "none"
    /\ UNCHANGED <<zapRest, zapLocals, storeVars, fixed>>

(* ---------------- dvbv5-zap-wrapper.py: check_frontend ---------------- *)
\* the tick counter, capped: the zap loop counts and never tests it
Capped(n) == IF n < CntCap THEN n + 1 ELSE n

\* lines 110-127: the poll, the status read and the lock test; a poll or a
\* read that fails sleeps and goes to the next tick. The loop reads neither
\* the abort flag nor the tick counter.
ZcfPoll ==
    /\ flow = "zap" /\ pc = "zcf_poll"
    /\ \E ret1 \in NativeRets : \E hwStatus \in StatusValues :
       \E ret2 \in NativeRets :
         LET g == dvb_fe_get_stats(statCache, hwStatus, ret1)
             r == dvb_fe_retrieve_stats(g.cache, ret2)
         IN  /\ statCache' = g.cache
             /\ IF g.raised
                THEN /\ pc' = pc
                     /\ hist' = StatsTickOver(TickEnds(
                                   [StatsRefreshCalled(hist) EXCEPT
                                       !.polls = Capped(@),
                                       !.failedTickUncounted = TRUE]))
                     /\ UNCHANGED <<status, cfExit>>
                ELSE IF ~IsSome(r)
                THEN /\ pc' = pc
                     /\ status' = FE_NONE
                     /\ hist' = StatsTickOver(TickEnds(
                                   [StatsRead(StatsRefreshCalled(hist)) EXCEPT
                                       !.polls = Capped(@),
                                       !.failedTickUncounted = FALSE]))
                     /\ UNCHANGED cfExit
                ELSE /\ status' = Val(r)
                     /\ hist' = [StatsRead(StatsRefreshCalled(hist)) EXCEPT
                           !.polls = Capped(@),
                           !.failedTickUncounted = FALSE,
                           !.lockRead = @ \/ HasBit(Val(r), FE_HAS_LOCK)]
                     /\ IF LockTest(Val(r))
                        THEN pc' = "zcf_ret" /\ cfExit' = "break"
                        ELSE pc' = "zcf_sleep" /\ cfExit' = cfExit
    /\ UNCHANGED <<timeout_cnt, cfRet>>
    /\ UNCHANGED <<abort, idx, handler, x>>
    /\ UNCHANGED <<zapLocals, storeVars, fixed>>

\* lines 129-130: sleep, then the tick counter
ZcfSleep ==
    /\ flow = "zap" /\ pc = "zcf_sleep"
    /\ timeout_cnt' = Capped(timeout_cnt)
    /\ pc' = "zcf_poll"
    /\ hist' = StatsTickOver(TickEnds(hist))
    /\ UNCHANGED <<status, cfRet, cfExit>>
    /\ UNCHANGED <<zapRest, zapLocals, storeVars, fixed>>

\* line 132: return status & FE_HAS_LOCK; main lines 271-273: a zero result
\* ends main, any other goes on to the monitoring loop. The tick counter is a
\* local of check_frontend and ends with it.
ZcfRet ==
    /\ flow = "zap" /\ pc = "zcf_ret"
    /\ cfRet' = Some(IF HasBit(status, FE_HAS_LOCK) THEN FE_HAS_LOCK ELSE 0)
    /\ pc' = IF HasBit(status, FE_HAS_LOCK) THEN "zp_monitor" ELSE "zp_done"
    /\ timeout_cnt' = 0
    /\ hist' = [hist EXCEPT !.polls = 0]
    /\ UNCHANGED <<status, cfExit>>
    /\ UNCHANGED <<zapRest, zapLocals, storeVars, fixed>>

\* lines 83-96  print_frontend_stats: dvb_fe_get_stats (a failure returns
\* -1), then the status read of line 90, whose ValueError nothing catches
print_frontend_stats(sc, h, hwStatus, ret1, ret2) ==
    LET g == dvb_fe_get_stats(sc, hwStatus, ret1)
        h1 == StatsRefreshCalled(h)
        r == dvb_fe_retrieve_stats(g.cache, ret2)
    IN  IF g.raised THEN [cache |-> g.cache, hist |-> h1, raised |-> FALSE]
        ELSE [cache |-> g.cache,
              hist |-> [StatsRead(h1) EXCEPT !.displayed = IsSome(r)],
              raised |-> ~IsSome(r)]

\* lines 99-103  get_show_stats: its own dvb_fe_get_stats; a failure
\* returns -1 without the display
get_show_stats(sc, h, hwStatus, ret) ==
    LET g == dvb_fe_get_stats(sc, hwStatus, ret)
    IN  [cache |-> g.cache,
         hist |-> [StatsRefreshCalled(h) EXCEPT !.displayed = FALSE],
         raised |-> g.raised]

\* main lines 275-285 with get_show_stats: the call of every second; when
\* its refresh fails the loop sleeps and calls again
ZpMonitor ==
    /\ flow = "zap" /\ pc = "zp_monitor"
    /\ \E hwStatus \in StatusValues : \E ret \in NativeRets :
         LET g == get_show_stats(statCache, hist, hwStatus, ret)
         IN  /\ statCache' = g.cache
             /\ IF g.raised
                THEN /\ hist' = StatsTickOver(g.hist)
                     /\ \E interrupt \in BOOLEAN :
                           pc' = IF ~interrupt THEN pc
                                 ELSE IF req.dvr THEN "zp_raised"
                                 ELSE "zp_done"
                ELSE hist' = g.hist /\ pc' = "zp_print"
    /\ UNCHANGED <<abort, idx, handler, x>>
    /\ UNCHANGED <<scanLocals, zapLocals, storeVars, fixed>>

\* get_show_stats line 104 and main lines 278-287: the display, then the
\* sleep; the KeyboardInterrupt is caught in the plain loop and not in the
\* dvr loop; a ValueError of the display is caught in neither
ZpPrint ==
    /\ flow = "zap" /\ pc = "zp_print"
    /\ \E hwStatus \in StatusValues : \E ret1, ret2 \in NativeRets :
       \E interrupt \in BOOLEAN :
         LET g == print_frontend_stats(statCache, hist, hwStatus, ret1, ret2)
         IN  /\ statCache' = g.cache
             /\ hist' = StatsTickOver(g.hist)
             /\ pc' = IF g.raised THEN "zp_raised"
                      ELSE IF ~interrupt THEN "zp_monitor"
                      ELSE IF req.dvr THEN "zp_raised" ELSE "zp_done"
    /\ UNCHANGED <<abort, idx, handler, x>>
    /\ UNCHANGED <<scanLocals, zapLocals, storeVars, fixed>>

ZapNext ==
    \/ ZpParse \/ ZpCompat \/ ZpCopy \/ ZpSetupRead \/ ZpSetupCommit
    \/ ZpFilters \/ ZcfPoll \/ ZcfSleep \/ ZcfRet \/ ZpMonitor \/ ZpPrint

(* ---------------- free sequences of property-store calls -------------- *)
ApiCmds == {DTV_FREQUENCY, DTV_MODULATION}
ApiValues == {1, 2}

apiRest == <<abort, statCache, idx, handler, x, pc>>

\* a call of dvb_fe_store_parm (set)
ApiStore ==
    /\ flow = "api" /\ nops < MaxOps
    /\ \E cmd \in ApiCmds : \E value \in ApiValues : \E ret \in NativeRets :
         LET p == dvb_fe_store_parm(Parms, cmd, value, ret)
         IN  /\ cache' = p.cache
             /\ hw' = p.hw
             /\ hist' = [hist EXCEPT
                   !.storedCmds = @ \cup {cmd},
                   !.lastWritten = IF ret = 0 THEN [@ EXCEPT ![cmd] = value]
                                   ELSE @]
    /\ nops' = nops + 1
    /\ UNCHANGED <<flow, dev, systems, timeout_multiply, file>>
    /\ UNCHANGED <<apiRest, scanLocals, zapLocals>>

\* a call of dvb_fe_set_parms (commit)
ApiSetParms ==
    /\ flow = "api" /\ nops < MaxOps
    /\ \E ret \in NativeRets : \E applied \in AppliedSets(cache) :
         LET p == dvb_fe_set_parms(Parms, applied, ret)
         IN  /\ cache' = p.cache
             /\ hw' = p.hw
             /\ hist' = [hist EXCEPT
                   !.commitCalled = TRUE,
                   !.lastWritten = IF ret = 0 THEN applied ELSE @,
                   !.synced = IF ret = 0 THEN applied ELSE @]
    /\ nops' = nops + 1
    /\ UNCHANGED <<flow, dev, systems, timeout_multiply, file>>
    /\ UNCHANGED <<apiRest, scanLocals, zapLocals>>

\* a call of dvb_fe_get_parms (refresh)
ApiGetParms ==
    /\ flow = "api" /\ nops < MaxOps
    /\ \E ret \in NativeRets : \E view \in HwViews(hw) :
         LET p == dvb_fe_get_parms(Parms, view, ret)
         IN  /\ cache' = p.cache
             /\ hw' = p.hw
             /\ hist' = [hist EXCEPT
                   !.lastWritten = IF ret = 0 THEN view ELSE @,
                   !.synced = IF ret = 0 THEN view ELSE @]
    /\ nops' = nops + 1
    /\ UNCHANGED <<flow, dev, systems, timeout_multiply, file>>
    /\ UNCHANGED <<apiRest, scanLocals, zapLocals>>

\* a call of dvb_fe_retrieve_parm (get)
ApiRetrieve ==
    /\ flow = "api" /\ nops < MaxOps
    /\ \E cmd \in ApiCmds : \E ret \in NativeRets :
         LET r == dvb_fe_retrieve_parm(Parms, cmd, ret)
         IN  hist' = IF IsSome(r)
                     THEN [hist EXCEPT !.lastRead = ReadRecord(cmd, Val(r))]
                     ELSE hist
    /\ nops' = nops + 1
    /\ UNCHANGED <<flow, dev, systems, timeout_multiply, file>>
    /\ UNCHANGED <<apiRest, scanLocals, zapLocals, storeVars>>

ApiNext == ApiStore \/ ApiSetParms \/ ApiGetParms \/ ApiRetrieve

(* ------------- dvb_scan.py: dvb_add_scaned_transponders --------------- *)
\* The native expander links the new entry after the last one of the chain.
NativeAppend(list, e) == Append(list, e)

\* The native expander, given the first entry of the chain to walk: the
\* transponders of the NIT are taken in turn, and one whose key no entry
\* walked carries (an entry appended for an earlier transponder of this NIT
\* included) is appended, with service id 0.
NativeExpand(list, first, nit) ==
    LET walked == {DedupKey(list[i]) : i \in first..Len(list)}
        isNew(j) ==
            /\ DedupKey(nit[j]) \notin walked
            /\ \A h \in 1..(j - 1) : DedupKey(nit[h]) # DedupKey(nit[j])
        grown[j \in 0..Len(nit)] ==
            IF j = 0 THEN list
            ELSE IF isNew(j) THEN NativeAppend(grown[j - 1], nit[j])
                 ELSE grown[j - 1]
    IN  grown[Len(nit)]

\* The wrapper handing target.entry[-1] to the native call.
dvb_add_scaned_transponders_last(target, desc) ==
    IF target = <<>>
    THEN [list |-> target, raised |-> TRUE]
    ELSE [list |-> NativeExpand(target, Len(target), desc.nit),
          raised |-> FALSE]

\* dvb_scan.py:63-77  the chain is walked from target.entry[0]; an empty
\* target has no entry[0] (IndexError) and the native call is not made.
dvb_add_scaned_transponders(target, desc) ==
    IF target = <<>>
    THEN [list |-> target, raised |-> TRUE]
    ELSE [list |-> NativeExpand(target, 1, desc.nit), raised |-> FALSE]

\* The walk putting every entry it meets in front of the list it builds.
RECURSIVE DVBFile_entry_reversed(_)
DVBFile_entry_reversed(chain) ==
    IF chain = <<>> THEN <<>>
    ELSE Append(DVBFile_entry_reversed(Tail(chain)), Head(chain))

\* dvb_file.py:210-217  DVBFile.entry: the list is built anew by walking
\* the chain from first_entry along next, appending each entry met.
RECURSIVE DVBFile_entry(_)
DVBFile_entry(chain) ==
    IF chain = <<>> THEN <<>>
    ELSE <<Head(chain)>> \o DVBFile_entry(Tail(chain))

expandRest == <<abort, statCache, idx, pc>>

\* a caller expands the session's list with the descriptor it holds, and
\* reads the list again (target.entry)
XpExpand ==
    /\ flow = "expand" /\ nops < MaxOps
    /\ LET r == dvb_add_scaned_transponders(file, Val(handler))
       IN  /\ file' = DVBFile_entry(r.list)
           /\ hist' = [hist EXCEPT
                 !.before = Some(file),
                 !.expandRuns = IF r.raised \/ @ = 2 THEN @ ELSE @ + 1,
                 !.grew = IF hist.expandRuns = 0 /\ ~r.raised
                          THEN Len(r.list) > Len(file) ELSE @,
                 !.afterFirst = IF hist.expandRuns = 0 /\ ~r.raised
                                THEN Some(r.list) ELSE @]
    /\ nops' = nops + 1
    /\ UNCHANGED <<flow, dev, systems, timeout_multiply, handler, x>>
    /\ UNCHANGED <<expandRest, scanLocals, zapLocals, storeVars>>

\* the services of the descriptor are stored (dvb_store_channel)
XpStore ==
    /\ flow = "expand" /\ nops < MaxOps
    /\ \E ret \in NativeRets :
         LET r == dvb_store_channel(Val(handler), ret)
         IN  x' = IF IsSome(r) THEN r ELSE x
    /\ nops' = nops + 1
    /\ UNCHANGED <<flow, dev, systems, timeout_multiply, file, handler, hist>>
    /\ UNCHANGED <<expandRest, scanLocals, zapLocals, storeVars>>

\* the next transponder is scanned: another descriptor, another NIT
XpScan ==
    /\ flow = "expand" /\ nops < MaxOps
    /\ \E nit \in NitTables :
         /\ NitDescriptor(nit) # Val(handler)
         /\ handler' = Some(NitDescriptor(nit))
    /\ hist' = [hist EXCEPT !.before = None, !.expandRuns = 0,
                            !.grew = FALSE, !.afterFirst = None]
    /\ nops' = nops + 1
    /\ UNCHANGED <<flow, dev, systems, timeout_multiply, file, x>>
    /\ UNCHANGED <<expandRest, scanLocals, zapLocals, storeVars>>

ExpandNext == XpExpand \/ XpStore \/ XpScan

(* -------------- dvb_dev.py: dvb_dev_dmx_set_pesfilter ------------------ *)
\* dvb_dev.py:342  "Use 0x2000 to select all PIDs"
PID_ALL == 8192

\* A Python int n, unbounded, written as n = hi * 2^32 + lo with lo a
\* signed 32-bit value (-2^31 .. 2^31 - 1): the split is unique.
PyInt(hi, lo) == [hi |-> hi, lo |-> lo]

\* the value of a Python int lies in the range lo..up of small numbers
PyIntIn(n, low, up) == n.hi = 0 /\ n.lo \in low..up

\* dvb_dev.py:353  pid goes to the foreign function as it is; no argtypes
\* are declared, so the Python int is converted to a C int by keeping its
\* low 32 bits (two's complement).
CInt(n) == n.lo

\* PIDs a caller may pass: around both ends of the range, and two values
\* beyond the width of a C int (2^32 + 256 and 2^32 + 0x2001).
PidInputs ==
    { PyInt(0, 0 - 1), PyInt(0, 0), PyInt(0, 256), PyInt(0, PID_ALL - 1),
      PyInt(0, PID_ALL), PyInt(0, PID_ALL + 1),
      PyInt(1, 256), PyInt(1, PID_ALL + 1) }

\* The native filter start: a handle that is no demux or a PID out of range
\* is refused and no command is issued; else the command is issued with
\* that PID and the ioctl's result is returned.
NativeSetPesfilter(isDemux, cpid, ioRet) ==
    IF ~isDemux \/ cpid \notin 0..PID_ALL
    THEN [ret |-> 0 - 1, issued |-> None]
    ELSE [ret |-> ioRet, issued |-> Some(cpid)]

\* dvb_dev.py:337-355  the wrapper validates nothing itself; it raises
\* ("Failed to start filter!") when the native call returns less than 0.
dvb_dev_dmx_set_pesfilter(isDemux, pid, ioRet) ==
    LET n == NativeSetPesfilter(isDemux, CInt(pid), ioRet)
    IN  [issued |-> n.issued, raised |-> n.ret < 0]

filterRest == <<abort, statCache, idx, handler, x, pc>>

\* a caller starts a filter on a handle it opened
FlSetPesfilter ==
    /\ flow = "filter" /\ nops < MaxOps
    /\ \E isDemux \in BOOLEAN : \E pid \in PidInputs : \E ioRet \in {0 - 1, 0} :
         LET r == dvb_dev_dmx_set_pesfilter(isDemux, pid, ioRet)
         IN  hist' = [hist EXCEPT
                 !.filterCall = Some([demux |-> isDemux, pid |-> pid,
                                      issued |-> r.issued,
                                      raised |-> r.raised])]
    /\ nops' = nops + 1
    /\ UNCHANGED <<flow, dev, systems, timeout_multiply, file>>
    /\ UNCHANGED <<filterRest, scanLocals, zapLocals, storeVars>>

(* ------------- dvb_dev.py: dvb_dev_scan, the table scanner ------------ *)
\* A table of the transport stream: its kind and, for a per-service table,
\* the position of the service in the PAT.
Table(kind, sid) == [kind |-> kind, sid |-> sid]

\* The tables the scanner acquires for a transponder, in its order: PAT,
\* the mapping table of every service the PAT gave, SDT (VCT for the ATSC
\* family), NIT. A PAT that did not arrive gives no service.
TablePlan(found, sys) ==
    <<Table("PAT", 0)>>
        \o [i \in 1..found |-> Table("PMT", i)]
        \o <<Table(IF sys = SYS_ATSC THEN "VCT" ELSE "SDT", 0),
             Table("NIT", 0)>>

\* the place of a table in that order
Stage(t) ==
    CASE t.kind = "PAT" -> 1
      [] t.kind = "PMT" -> 2
      [] t.kind \in {"SDT", "VCT"} -> 3
      [] t.kind = "NIT" -> 4

\* The scanner asking for the next table whatever is in progress.
RequestAllowedAlways(inProgress) == TRUE

\* The scanner asks for the next table when no acquisition is in progress.
RequestAllowed(inProgress) == inProgress = {}

\* ticks a table acquisition is given (the budget of the lock loop)
TableBudget == TicksPerMultiply * timeout_multiply

\* the tables of this transponder, as far as the PAT is known
CurrentPlan ==
    TablePlan(IF Table("PAT", 0) \in hist.arrived THEN idx ELSE 0,
              CHOOSE sys \in systems : TRUE)

tablesRest == <<abort, statCache, idx, handler, x, pc>>
tablesFixed == <<flow, dev, systems, timeout_multiply, file, nops>>

\* the acquisition of the next table of the plan begins
TsRequest ==
    /\ flow = "tables"
    /\ k <= Len(CurrentPlan)
    /\ RequestAllowed(hist.inProgress)
    /\ hist' = [hist EXCEPT !.inProgress = @ \cup {CurrentPlan[k]},
                            !.requested = @ \cup {CurrentPlan[k]}]
    /\ k' = k + 1
    /\ timeout_cnt' = 0
    /\ UNCHANGED <<status, cfRet, cfExit, req, entry, freq>>
    /\ UNCHANGED <<tablesRest, tablesFixed, storeVars>>

\* a tick of an acquisition: the table arrives in this pass of the
\* multiplex, which ends the acquisition, or it does not
TsPoll ==
    /\ flow = "tables"
    /\ timeout_cnt < TableBudget
    /\ \E t \in hist.inProgress : \E arrives \in BOOLEAN :
         IF arrives
         THEN /\ hist' = [hist EXCEPT !.inProgress = @ \ {t},
                                      !.arrived = @ \cup {t},
                                      !.ended = @ \cup {t}]
              /\ timeout_cnt' = timeout_cnt
         ELSE /\ hist' = hist
              /\ timeout_cnt' = timeout_cnt + 1
    /\ UNCHANGED <<status, cfRet, cfExit, req, entry, freq, k>>
    /\ UNCHANGED <<tablesRest, tablesFixed, storeVars>>

\* the budget of an acquisition is used up: it ends without the table,
\* which the descriptor will omit
TsTimeout ==
    /\ flow = "tables"
    /\ timeout_cnt >= TableBudget
    /\ \E t \in hist.inProgress :
         hist' = [hist EXCEPT !.inProgress = @ \ {t}, !.ended = @ \cup {t}]
    /\ UNCHANGED <<status, cfRet, cfExit, req, entry, freq, k, timeout_cnt>>
    /\ UNCHANGED <<tablesRest, tablesFixed, storeVars>>

TablesNext == TsRequest \/ TsPoll \/ TsTimeout

(* ------------- dvb_fe.py: dvb_fe_retrieve_stats_layer ----------------- *)
Layers == 0..MaxLayer

\* values a cached statistic may have
StatValues == {10, 20}

\* dvb_fe.py:186-201  the native dvb_fe_retrieve_stats "gets the value for
\* one stats property for layer = 0".
NativeRetrieveStats(layerStats) == layerStats[0]

\* dvb_fe.py:167-183  dvb_fe_retrieve_stats_layer: the layer argument is not
\* passed on; the native dvb_fe_retrieve_stats is called as in
\* dvb_fe_retrieve_stats. None stands for the ValueError of ret # 0.
dvb_fe_retrieve_stats_layer(layerStats, layer, ret) ==
    IF ret # 0 THEN None ELSE Some(NativeRetrieveStats(layerStats))

statsRest == <<abort, statCache, idx, handler, x, pc>>

\* a caller reads a statistic of a layer from the cache the last
\* dvb_fe_get_stats filled
StRetrieveLayer ==
    /\ flow = "stats" /\ nops < MaxOps
    /\ \E layerStats \in [Layers -> StatValues] : \E layer \in Layers :
       \E ret \in NativeRets :
         hist' = [hist EXCEPT !.layerRead =
                    Some([stats |-> layerStats, layer |-> layer,
                          result |-> dvb_fe_retrieve_stats_layer(
                                         layerStats, layer, ret)])]
    /\ nops' = nops + 1
    /\ UNCHANGED <<flow, dev, systems, timeout_multiply, file>>
    /\ UNCHANGED <<statsRest, scanLocals, zapLocals, storeVars>>

(* ------------ dvbv5-zap-wrapper.py: main, the PID filters ------------- *)
\* The stream index taken as requested, with no fallback to 0.
StreamIndexUnchecked(requested, len) ==
    IF IsSome(requested) THEN Val(requested) ELSE 0

\* lines 220-224 (236-240 for audio): 0 unless an index was given; an index
\* not below the length of the list becomes 0
StreamIndex(requested, len) ==
    LET n == IF IsSome(requested) THEN Val(requested) ELSE 0
    IN  IF n >= len THEN 0 ELSE n

\* One call of dvb_dev_dmx_set_pesfilter.
FilterCall(stream, pid, pes_type, dvr) ==
    [stream |-> stream, pid |-> pid, pes_type |-> pes_type,
     output |-> IF dvr THEN "DMX_OUT_TS_TAP" ELSE "DMX_OUT_DECODER"]

\* lines 231-239 (242-252): for i in range(0, len(pids)), Python's i being
\* 0, 1, ...: without extra_pids every i but n is skipped; the filter of
\* i = n is tagged primary, any other DMX_PES_OTHER.
StreamCalls(stream, pids, n, o, primary) ==
    LET sel[j \in 0..Len(pids)] ==
            IF j = 0 THEN <<>>
            ELSE IF (~o.extra_pids) /\ (j - 1 # n) THEN sel[j - 1]
            ELSE Append(sel[j - 1],
                        FilterCall(stream, pids[j],
                                   IF j - 1 = n THEN primary
                                   ELSE "DMX_PES_OTHER", o.dvr))
    IN  sel[Len(pids)]

\* lines 203-268: the filter starts main asks for, in its order
FilterPlan(e, o) ==
    IF o.all_pids
    THEN << [stream |-> "all", pid |-> PID_ALL, pes_type |-> "DMX_PES_OTHER",
             output |-> "DMX_OUT_TS_TAP"] >>
    ELSE StreamCalls("video", e.video_pid,
                     StreamIndex(o.n_vpid, Len(e.video_pid)), o,
                     "DMX_PES_VIDEO0")
         \o StreamCalls("audio", e.audio_pid,
                        StreamIndex(o.n_apid, Len(e.audio_pid)), o,
                        "DMX_PES_AUDIO0")
         \o (IF o.extra_pids
             THEN [j \in 1..Len(e.other_el_pid) |->
                      FilterCall("other", e.other_el_pid[j],
                                 "DMX_PES_OTHER", o.dvr)]
             ELSE <<>>)

pidsRest == <<abort, statCache, idx, handler, x>>

\* main from the filters to the call of check_frontend: the calls of the
\* plan are made in order; an open, a buffer size or a filter start that
\* fails raises and ends main after the calls made so far.
PfFilters ==
    /\ flow = "pids" /\ pc = "pf"
    /\ LET e == file[1]
           o == req
           plan == FilterPlan(e, o)
       IN  \E made \in 0..Len(plan) : \E raised \in BOOLEAN :
             /\ (~raised) => made = Len(plan)
             /\ hist' = [hist EXCEPT !.pidCalls =
                           Some([entry |-> e, opts |-> o, raised |-> raised,
                                 calls |-> SubSeq(plan, 1, made)])]
             /\ pc' = IF raised THEN "pf_raised" ELSE "pf_done"
    /\ UNCHANGED <<flow, dev, systems, timeout_multiply, file, nops>>
    /\ UNCHANGED <<pidsRest, scanLocals, zapLocals, storeVars>>

(* --------------------- dvb_file.py: DVBEntry.props -------------------- *)
\* dvb_frontend.py:207  DTV_MAX_COMMAND = DTV_SCRAMBLING_SEQUENCE_INDEX
DTV_MAX_COMMAND == 70
\* dvb_v5_std.py:8, 63, 77
DTV_USER_COMMAND_START == 256
DTV_MAX_USER_COMMAND == 268
DTV_STAT_COMMAND_START == 512
\* the largest value of the c_uint32 cmd field the model writes
MaxCmd == 2147483647

\* dvb_frontend.py:109-204  the values DVBv5PropertyCommand has a member for
KernelMembers == 0..DTV_MAX_COMMAND
\* dvb_v5_std.py:11-60  the values DTVUserPropertyCommand has a member for
UserMembers == DTV_USER_COMMAND_START..DTV_MAX_USER_COMMAND

\* the ids a property of an entry is given: all around the three ranges
CmdIds ==
    (0..(DTV_MAX_COMMAND + 2))
        \cup ((DTV_USER_COMMAND_START - 2)..(DTV_MAX_USER_COMMAND + 2))
        \cup ((DTV_STAT_COMMAND_START - 2)..(DTV_STAT_COMMAND_START + 6))
        \cup {MaxCmd}

\* ... and the ones combined in entries of two properties
FewCmdIds ==
    {0, DTV_MAX_COMMAND, DTV_MAX_COMMAND + 1, DTV_USER_COMMAND_START,
     DTV_MAX_USER_COMMAND + 1, DTV_STAT_COMMAND_START}

RawProps ==
    { << <<c, 1>> >> : c \in CmdIds }
        \cup { << <<c, 1>>, <<d, 2>> >> : c \in FewCmdIds, d \in FewCmdIds }

\* the first test of the classification one short of DTV_MAX_COMMAND
ClassifyExclusive(cmd) ==
    IF cmd < DTV_MAX_COMMAND
    THEN IF cmd \in KernelMembers THEN Some([kind |-> "kernel", id |-> cmd])
         ELSE None
    ELSE IF DTV_USER_COMMAND_START <= cmd /\ cmd <= DTV_MAX_USER_COMMAND
    THEN IF cmd \in UserMembers THEN Some([kind |-> "user", id |-> cmd])
         ELSE None
    ELSE Some([kind |-> "raw", id |-> cmd])

\* dvb_file.py:87-92  the key a property id is stored under: a member of
\* DVBv5PropertyCommand, a member of DTVUserPropertyCommand or the integer
\* itself; None stands for the ValueError of an enum without such a member.
Classify(cmd) ==
    IF cmd <= DTV_MAX_COMMAND
    THEN IF cmd \in KernelMembers THEN Some([kind |-> "kernel", id |-> cmd])
         ELSE None
    ELSE IF DTV_USER_COMMAND_START <= cmd /\ cmd <= DTV_MAX_USER_COMMAND
    THEN IF cmd \in UserMembers THEN Some([kind |-> "user", id |-> cmd])
         ELSE None
    ELSE Some([kind |-> "raw", id |-> cmd])

\* dvb_file.py:77-94  DVBEntry.props: the dictionary of the entry's
\* properties, a later property replacing an earlier one of the same key
\* (an enum member and its integer are the same key); raised when a
\* classification failed.
DVBEntry_props(raw) ==
    LET n == Len(raw)
        bad == {i \in 1..n : ~IsSome(Classify(raw[i][1]))}
        last(i) == \A j \in (i + 1)..n : raw[j][1] # raw[i][1]
    IN  IF bad # {} THEN [raised |-> TRUE, dict |-> {}]
        ELSE [raised |-> FALSE,
              dict |-> { <<Val(Classify(raw[i][1])), raw[i][2]>> :
                           i \in {h \in 1..n : last(h)} }]

propsRest == <<abort, statCache, idx, handler, x, nops>>

\* a caller reads the props of an entry of a channel file
PrProps ==
    /\ flow = "props" /\ pc = "pr"
    /\ \E raw \in RawProps :
         hist' = [hist EXCEPT !.propsRead =
                    Some([raw |-> raw, result |-> DVBEntry_props(raw)])]
    /\ pc' = "pr_done"
    /\ UNCHANGED <<flow, dev, systems, timeout_multiply, file>>
    /\ UNCHANGED <<propsRest, scanLocals, zapLocals, storeVars>>

(* ------------- DVBv5.py / dvb_dev.py: closing a device ---------------- *)
\* dvb_dev.py:311-317  dvb_dev_close: the native close of the handle
dvb_dev_close(d) == [d EXCEPT !.closes = @ + 1]

\* dvb_dev.py:162-163  DVBOpenDescriptor.__del__: the native close again
DVBOpenDescriptor_del(d) == [d EXCEPT !.open = FALSE, !.closes = @ + 1]

\* The DVBOpenDescriptor is destroyed when its last reference goes.
Release(d) ==
    IF d.open /\ ~d.held /\ d.ext = 0 THEN DVBOpenDescriptor_del(d) ELSE d

\* DVBv5.py:16-22  DVBv5Descriptor.dvb_dev_close: closes the handle it
\* holds and lets go of it (= None)
DVBv5Descriptor_dvb_dev_close(d) ==
    IF d.held THEN Release([dvb_dev_close(d) EXCEPT !.held = FALSE]) ELSE d

\* DVBv5.py:13-14  DVBv5Descriptor.__del__
DVBv5Descriptor_del(d) ==
    [DVBv5Descriptor_dvb_dev_close(d) EXCEPT !.wrapper = FALSE]

closeRest == <<abort, statCache, idx, handler, x, pc, hist>>
closeFixed == <<flow, systems, timeout_multiply, file>>

\* the caller closes the device explicitly
DcClose ==
    /\ flow = "close" /\ dev.wrapper /\ nops < MaxOps
    /\ dev' = DVBv5Descriptor_dvb_dev_close(dev)
    /\ nops' = nops + 1
    /\ UNCHANGED <<closeRest, closeFixed, scanLocals, zapLocals, storeVars>>

\* the DVBv5Descriptor is destroyed (its last reference goes)
DcDel ==
    /\ flow = "close" /\ dev.wrapper /\ nops < MaxOps
    /\ dev' = DVBv5Descriptor_del(dev)
    /\ nops' = nops + 1
    /\ UNCHANGED <<closeRest, closeFixed, scanLocals, zapLocals, storeVars>>

\* the caller's own reference to the DVBOpenDescriptor goes
DcDropRef ==
    /\ flow = "close" /\ dev.ext > 0 /\ nops < MaxOps
    /\ dev' = Release([dev EXCEPT !.ext = @ - 1])
    /\ nops' = nops + 1
    /\ UNCHANGED <<closeRest, closeFixed, scanLocals, zapLocals, storeVars>>

CloseNext == DcClose \/ DcDel \/ DcDropRef

(* --------------------------- specifications --------------------------- *)
Next ==
    \/ SetAbort
    \/ RsRead \/ RsOpen \/ RsLoop \/ RsScan
    \/ CfWhile \/ CfPoll \/ CfSleep \/ CfRet
    \/ NatTables \/ RsAfter \/ RsStore
    \/ ZpParse \/ ZpCompat \/ ZpCopy \/ ZpSetupRead \/ ZpSetupCommit
    \/ ZpFilters \/ ZcfPoll \/ ZcfSleep \/ ZcfRet \/ ZpMonitor \/ ZpPrint
    \/ ApiStore \/ ApiSetParms \/ ApiGetParms \/ ApiRetrieve
    \/ XpExpand \/ XpStore \/ XpScan
    \/ FlSetPesfilter
    \/ TsRequest \/ TsPoll \/ TsTimeout
    \/ StRetrieveLayer
    \/ PfFilters
    \/ PrProps
    \/ DcClose \/ DcDel \/ DcDropRef

Spec == Init /\ [][Next]_vars

\* The program's own steps are taken as long as one is possible: a running
\* thread is scheduled. The setter of the abort flag need never run.
Program ==
    \/ ScanNext
    \/ ZapNext
    \/ ApiNext
    \/ ExpandNext
    \/ FlSetPesfilter
    \/ TablesNext
    \/ StRetrieveLayer
    \/ PfFilters
    \/ PrProps
    \/ CloseNext

FairSpec == Spec /\ WF_vars(Program)

(* ------------------------------ claims -------------------------------- *)
Budget == TicksPerMultiply * timeout_multiply

\* C1: for timeout_multiply = m >= 1 the scan loop polls the status at most
\* 40*m times before it reports TimedOut (and then it has slept 40*m ticks);
\* a poll that sees full lock is the last one, with no poll or sleep after
\* it, so on lock fewer than 40*m ticks were performed.
C1_TickBound ==
    (flow = "scan" /\ timeout_multiply >= 1) =>
        /\ hist.polls <= Budget
        /\ timeout_cnt <= Budget
        /\ (cfExit = "exhausted" => timeout_cnt = Budget /\ hist.polls = Budget)
        /\ (cfExit = "break" =>
                /\ HasBit(status, FE_HAS_LOCK)
                /\ timeout_cnt < Budget
                /\ hist.polls = timeout_cnt + 1)

\* lock seen at the last poll the budget allows
C1_Witness ==
    /\ flow = "scan" /\ timeout_multiply >= 1
    /\ cfExit = "break"
    /\ hist.polls = Budget

\* C2: once the abort flag is set while an acquisition loop polls, the loop
\* reports Aborted within the next tick (at most two ticks end after the
\* flag was set), and no tune commit (dvb_dev_scan, dvb_fe_set_parms) begins
\* after it.
C2_Cancellation ==
    hist.abortInLoop =>
        /\ hist.ticksAfterAbort <= 2
        /\ ~hist.tuneAfterAbort

\* C3: the scan callback returns 0 exactly when a status read of that run
\* had the full-lock bit; a run that ends Aborted or TimedOut returns
\* non-zero.
C3_OnlyLockedProceeds ==
    (flow = "scan" /\ IsSome(cfRet)) =>
        /\ (Val(cfRet) = 0 <=> hist.lockRead)
        /\ (Outcome \in {"Aborted", "TimedOut"} => Val(cfRet) # 0)

\* C4: every acquisition loop that was entered reaches Locked, TimedOut or
\* Aborted.
C4_LoopTerminates ==
    (pc \in {"cf_while", "zcf_poll"}) ~> (Outcome # "Polling")

\* C5 (as stated): a tick whose status read has the timed-out bit ends the
\* polling at that tick, as one with the full-lock bit does; no other bit
\* ends it.
C5_TimedOutTerminal ==
    /\ (pc \in {"cf_sleep", "zcf_sleep"} =>
            ~HasBit(status, FE_HAS_LOCK) /\ ~HasBit(status, FE_TIMEDOUT))
    /\ (cfExit = "break" =>
            HasBit(status, FE_HAS_LOCK) \/ HasBit(status, FE_TIMEDOUT))

\* C5 (amended): only the full-lock bit is terminal: a tick whose status
\* read has it ends the polling at that tick, and a tick whose status lacks
\* it goes on to its sleep whatever the other bits are, the timed-out bit
\* included.
C5_OnlyLockTerminal ==
    /\ (pc \in {"cf_sleep", "zcf_sleep"} => ~HasBit(status, FE_HAS_LOCK))
    /\ (cfExit = "break" => HasBit(status, FE_HAS_LOCK))

\* a tick that read the timed-out bit and sleeps on
C5_Witness ==
    /\ pc \in {"cf_sleep", "zcf_sleep"}
    /\ HasBit(status, FE_TIMEDOUT)
    /\ hist.polls >= 1

\* C6: a step changes the hardware's parameters only if it is a commit
\* (dvb_fe_set_parms, or the tune of the native scan); no dvb_fe_store_parm
\* does.
C6_SetBuffers ==
    [][hw' # hw => (ApiSetParms \/ ZpSetupCommit \/ RsScan)]_vars

\* values were set, nothing was committed, the hardware still holds its own
C6_Witness ==
    /\ hist.storedCmds # {}
    /\ ~hist.commitCalled
    /\ cache # hw
    /\ hw = HwInit

\* C7 (as stated): a property read returns the value of the newest commit
\* or refresh, never one that was set and neither committed nor refreshed.
C7_ReadIsSynced ==
    IsSome(hist.lastRead) =>
        Val(hist.lastRead).val = Val(hist.lastRead).synced

\* C7 (amended): a property read returns the value the newest successful
\* set, commit or refresh gave the property; a value set and not yet
\* committed is read as set, as the frequency in setup_frontend is.
C7_ReadIsCached ==
    IsSome(hist.lastRead) =>
        Val(hist.lastRead).val = Val(hist.lastRead).written

\* setup_frontend read the frequency parse stored, before any commit
C7_Witness ==
    /\ flow = "zap" /\ pc = "zp_commit"
    /\ IsSome(freq) /\ IsSome(hist.lastRead)
    /\ Val(freq) = Val(dvb_retrieve_entry_prop(Val(entry), DTV_FREQUENCY))
    /\ Val(freq) # Val(hist.lastRead).synced
    /\ ~hist.commitCalled

\* C8: when the resolution of the entry's delivery system fails, the flow
\* ends there: no store, no commit and no filter-start command follows, and
\* the hardware holds what it held.
C8_NoWriteAfterResolveFail ==
    hist.compatFailed =>
        /\ pc = "zp_raised"
        /\ ~hist.afterFail
        /\ hist.storedCmds = {}
        /\ ~hist.commitCalled
        /\ ~hist.filters
        /\ hw = HwInit

\* an unsupported system with no substitute was asked for
C8_Witness ==
    /\ hist.compatFailed
    /\ IsSome(entry)
    /\ ~IsSome(Resolve(Val(dvb_retrieve_entry_prop(Val(entry),
                                                   DTV_DELIVERY_SYSTEM)),
                       systems))

\* C9: in the tune flow the resolver is called before the first
\* dvb_fe_store_parm, and dvb_fe_store_parm is never given the key
\* DTV_DELIVERY_SYSTEM.
C9_ResolveBeforeStore ==
    flow = "zap" =>
        /\ DTV_DELIVERY_SYSTEM \notin hist.storedCmds
        /\ (hist.storedCmds # {} => hist.compatCalled)

\* the copy loop went past the entry's delivery system and stored the rest
C9_Witness ==
    /\ flow = "zap" /\ pc = "zp_setup"
    /\ hist.storedCmds # {}
    /\ IsSome(dvb_retrieve_entry_prop(Val(entry), DTV_DELIVERY_SYSTEM))

\* The session ran its loop to the end, or left it by an exception.
SessionOver ==
    /\ flow = "scan"
    /\ \/ pc = "rs_raised"
       \/ pc = "rs_done" /\ idx > Len(file)

\* C10: when a scan session is over (not cancelled), every transponder of
\* the file that has a frequency was scanned, whatever failed before it, and
\* the session's DVBFile holds the services of every transponder whose store
\* succeeded.
C10_MergedResult ==
    SessionOver =>
        /\ \A i \in 1..Len(file) :
              IsSome(dvb_retrieve_entry_prop(file[i], DTV_FREQUENCY))
                  => i \in hist.scanned
        /\ hist.storedOk \subseteq (IF IsSome(x) THEN Val(x) ELSE {})

\* C11: a transponder whose PAT never arrived yields a descriptor with no
\* service; unless the session was cancelled, no exception leaves the
\* session at that transponder and the session goes on to the next one.
C11_TableMissingNonFatal ==
    (/\ flow = "scan" /\ ~abort /\ IsSome(handler)
     /\ Val(handler).tp = idx /\ Val(handler).services = 0)
        => pc \in {"rs_after", "rs_store"}

\* C12: a tick whose dvb_fe_get_stats fails never ends the acquisition loop
\* (it is a tick without lock), and it is counted like any other tick
\* before the next one starts.
C12_RefreshFailureAbsorbed ==
    /\ ~hist.failedTickEnded
    /\ ~hist.failedTickUncounted

\* no two entries of the list carry the same deduplication key
NoDupKeys(list) ==
    \A i, j \in 1..Len(list) :
        i # j => DedupKey(list[i]) # DedupKey(list[j])

\* C13: the expander is idempotent. Once dvb_add_scaned_transponders has run
\* with a descriptor, every further run with that descriptor leaves the
\* list equal to the list after the first run, and no two entries of the
\* list share a deduplication key.
C13_ExpanderIdempotent ==
    flow = "expand" =>
        /\ IsSome(hist.afterFirst) => file = Val(hist.afterFirst)
        /\ NoDupKeys(file)

\* the expander ran twice with one descriptor, and the first run appended
C13_Witness ==
    flow = "expand" /\ hist.expandRuns = 2 /\ hist.grew /\ Len(file) >= 2

\* C14: every entry an expansion appended has service id 0 and a key no
\* earlier entry of the list carries; a list holding the DVB-T transponder
\* 474000000 alone, expanded with a NIT that lists DVB-T 482000000, holds
\* exactly one new entry, that transponder.
C14_AppendedEntriesAreBare ==
    (flow = "expand" /\ IsSome(hist.before)) =>
        LET b == Val(hist.before)
            t474 == ListEntry(SYS_DVBT, 474000000, POLARIZATION_OFF, 0, 0)
            t482 == ListEntry(SYS_DVBT, 482000000, POLARIZATION_OFF, 0, 7)
        IN  /\ \A i \in (Len(b) + 1)..Len(file) :
                 /\ service_id(file[i]) = 0
                 /\ \A j \in 1..(i - 1) : DedupKey(file[j]) # DedupKey(file[i])
            /\ (b = <<t474>> /\ Val(handler).nit = <<t482>>) =>
                 /\ Len(file) = 2
                 /\ service_id(file[2]) = 0
                 /\ DedupKey(file[2]) = DedupKey(t482)

\* the list of one DVB-T entry was expanded with the NIT listing 482000000
C14_Witness ==
    /\ flow = "expand"
    /\ hist.before =
         Some(<< ListEntry(SYS_DVBT, 474000000, POLARIZATION_OFF, 0, 0) >>)
    /\ Val(handler).nit =
         << ListEntry(SYS_DVBT, 482000000, POLARIZATION_OFF, 0, 7) >>
    /\ Len(file) = 2

\* list a is a prefix of list b
IsPrefix(a, b) == Len(a) <= Len(b) /\ SubSeq(b, 1, Len(a)) = a

\* C15: the Transponder List is append-only: every step of a session (scan,
\* store, expand) leaves the list it found as a prefix of the list it
\* leaves, so the list of every earlier step is a prefix of every later one.
C15_AppendOnly == [][IsPrefix(file, file')]_vars

\* a list of two entries grew by two in the session: an expansion, a scan
\* of another transponder, a second expansion
C15_Witness ==
    /\ flow = "expand"
    /\ Len(file) >= 4
    /\ x # None

\* C16: while dvb_dev_scan runs for a transponder (from the tune to the
\* return of the native scan) no descriptor of an earlier transponder is
\* live: it was freed before this scan started.
C16_DescriptorDiscarded ==
    (flow = "scan" /\ pc \in {"cf_while", "cf_poll", "cf_sleep", "cf_ret",
                               "nat_tables"})
        => ~IsSome(handler)

\* C17: within one transponder scan the table acquisitions are sequential:
\* when the acquisition of a table has begun, the acquisition of every
\* table that comes earlier in the order PAT, per-service tables, SDT/VCT,
\* NIT has ended; and no two acquisitions are in progress at a time.
C17_TablesSequential ==
    flow = "tables" =>
        /\ Cardinality(hist.inProgress) <= 1
        /\ \A t \in hist.requested : \A u \in hist.requested :
             Stage(u) < Stage(t) => u \in hist.ended
        /\ \A t \in hist.requested :
             /\ Stage(t) > 1 => Table("PAT", 0) \in hist.ended
             /\ Stage(t) > 2 =>
                  \A i \in 1..idx :
                      Table("PAT", 0) \in hist.arrived
                          => Table("PMT", i) \in hist.ended
             /\ Stage(t) > 3 =>
                  \E u \in hist.ended : Stage(u) = 3

\* the NIT acquisition has ended after a PAT with two services, both
\* per-service tables arrived and the SDT did not within its budget
C17_Witness ==
    /\ flow = "tables"
    /\ Table("NIT", 0) \in hist.ended
    /\ Table("PMT", 2) \in hist.arrived
    /\ Table("SDT", 0) \in hist.ended \ hist.arrived

\* C18: a filter start on a handle that is no demux, or with a PID outside
\* 0..0x2000, fails and issues no filter-start command; on a demux handle
\* with a PID of 0..0x2000 the command is issued.
C18_FilterRejected ==
    IsSome(hist.filterCall) =>
        LET c == Val(hist.filterCall)
        IN  /\ (~c.demux \/ ~PyIntIn(c.pid, 0, PID_ALL)) =>
                 (c.raised /\ ~IsSome(c.issued))
            /\ (c.demux /\ PyIntIn(c.pid, 0, PID_ALL)) => IsSome(c.issued)

\* C20: every call of dvb_fe_retrieve_stats comes after a call of
\* dvb_fe_get_stats made in the same tick, with no other stats read between
\* the two; in both acquisition loops and in the stats display.
C20_RefreshBeforeStatsRead ==
    ~hist.staleRead

\* the display of the zap flow has read the status
C20_Witness ==
    /\ flow = "zap" /\ pc = "zp_monitor"
    /\ hist.displayed
    /\ HasBit(statCache, FE_TIMEDOUT)

\* C21: the value check_frontend returns when its ticks are used up without
\* lock is never the value it returns when it saw the abort flag.
C21_TimedOutIsNotAborted ==
    (flow = "scan" /\ IsSome(cfRet)) =>
        /\ Outcome = "Aborted" => Val(cfRet) = AbortReturn
        /\ Outcome = "TimedOut" => Val(cfRet) # AbortReturn

\* the loop used up its ticks and returned, with the abort flag set too
\* late for it to be seen
C21_Witness ==
    /\ flow = "scan" /\ IsSome(cfRet)
    /\ Outcome = "TimedOut" /\ timeout_multiply >= 1
    /\ abort

\* C27: check_frontend returns -1 only when 40*timeout_multiply ticks have
\* ended, each with a status poll and none of them reading the full-lock
\* bit; with timeout_multiply = 0 it returns -1 with no poll at all.
C27_TimedOutAfterAllTicks ==
    (flow = "scan" /\ IsSome(cfRet)) =>
        /\ Val(cfRet) = 0 - 1 =>
             /\ cfExit = "exhausted"
             /\ timeout_cnt = Budget
             /\ hist.polls = Budget
             /\ ~hist.lockRead
             /\ ~LockTest(status)
        /\ timeout_multiply = 0 => (Val(cfRet) = 0 - 1 /\ hist.polls = 0)

\* -1 was returned after 80 polls
C27_Witness ==
    /\ flow = "scan" /\ cfRet = Some(0 - 1)
    /\ timeout_multiply = 2
    /\ hist.polls = 2 * TicksPerMultiply

\* C22: dvb_fe_retrieve_stats_layer returns the cached statistic of the
\* layer it was asked for.
C22_LayerSelected ==
    IsSome(hist.layerRead) =>
        LET c == Val(hist.layerRead)
        IN  IsSome(c.result) => Val(c.result) = c.stats[c.layer]

\* the calls of the last filter section with that stream and that tag
CallsOf(stream, pes_type) ==
    LET c == Val(hist.pidCalls).calls
    IN  {j \in 1..Len(c) : c[j].stream = stream /\ c[j].pes_type = pes_type}

\* the stream index was not given or is not below the length of the list
DefaultIndex(requested, pids) ==
    ~IsSome(requested) \/ Val(requested) >= Len(pids)

\* C23: index 0 is the default stream. With no video index requested, or
\* one not below the length of the list, every filter tagged DMX_PES_VIDEO0
\* is started on video_pid[0], and when the filter section ends without
\* failure exactly one such filter was started for an entry with video
\* PIDs; likewise DMX_PES_AUDIO0 and audio_pid[0].
C23_DefaultStreamIsFirst ==
    (IsSome(hist.pidCalls) /\ ~Val(hist.pidCalls).opts.all_pids) =>
        LET c == Val(hist.pidCalls)
        IN  /\ DefaultIndex(c.opts.n_vpid, c.entry.video_pid) =>
                 /\ \A j \in CallsOf("video", "DMX_PES_VIDEO0") :
                        c.calls[j].pid = c.entry.video_pid[1]
                 /\ (~c.raised /\ c.entry.video_pid # <<>>) =>
                        Cardinality(CallsOf("video", "DMX_PES_VIDEO0")) = 1
            /\ DefaultIndex(c.opts.n_apid, c.entry.audio_pid) =>
                 /\ \A j \in CallsOf("audio", "DMX_PES_AUDIO0") :
                        c.calls[j].pid = c.entry.audio_pid[1]
                 /\ (~c.raised /\ c.entry.audio_pid # <<>>) =>
                        Cardinality(CallsOf("audio", "DMX_PES_AUDIO0")) = 1

\* two video and two audio PIDs, indexes 2 and none, extra PIDs on: both
\* primary filters were started, beside the two tagged DMX_PES_OTHER
C23_Witness ==
    /\ IsSome(hist.pidCalls)
    /\ LET c == Val(hist.pidCalls)
       IN  /\ ~c.opts.all_pids /\ c.opts.extra_pids /\ ~c.raised
           /\ c.opts.n_vpid = Some(2) /\ c.opts.n_apid = None
           /\ Len(c.entry.video_pid) = 2 /\ Len(c.entry.audio_pid) = 2
           /\ Len(c.calls) >= 4

\* C30: with extra PIDs off, whatever stream index is requested, exactly
\* one video filter is started for an entry with video PIDs and it is
\* tagged DMX_PES_VIDEO0; likewise one DMX_PES_AUDIO0 filter for an entry
\* with audio PIDs.
C30_OnePrimaryFilter ==
    (/\ IsSome(hist.pidCalls)
     /\ ~Val(hist.pidCalls).opts.all_pids
     /\ ~Val(hist.pidCalls).opts.extra_pids
     /\ ~Val(hist.pidCalls).raised) =>
        LET c == Val(hist.pidCalls)
        IN  /\ c.entry.video_pid # <<>> =>
                 /\ Cardinality(CallsOf("video", "DMX_PES_VIDEO0")) = 1
                 /\ CallsOf("video", "DMX_PES_OTHER") = {}
            /\ c.entry.audio_pid # <<>> =>
                 /\ Cardinality(CallsOf("audio", "DMX_PES_AUDIO0")) = 1
                 /\ CallsOf("audio", "DMX_PES_OTHER") = {}

\* the kind DVBEntry.props is to report an id as
KindOf(id) ==
    IF id \in 0..70 THEN "kernel"
    ELSE IF id \in 256..268 THEN "user"
    ELSE "raw"

\* C24: the ranges of property ids are pairwise disjoint and DVBEntry.props
\* never fails: every id of 0..70 is keyed as a kernel command, every id of
\* 256..268 as a user command, any other id (512 and up included) as the
\* integer itself.
C24_PropsClassified ==
    /\ DTV_MAX_COMMAND < DTV_USER_COMMAND_START
    /\ DTV_MAX_USER_COMMAND < DTV_STAT_COMMAND_START
    /\ IsSome(hist.propsRead) =>
         LET c == Val(hist.propsRead)
         IN  /\ ~c.result.raised
             /\ \A i \in 1..Len(c.raw) :
                  \E kv \in c.result.dict :
                      /\ kv[1].id = c.raw[i][1]
                      /\ kv[1].kind = KindOf(c.raw[i][1])
             /\ \A kv \in c.result.dict : kv[1].kind = KindOf(kv[1].id)

\* an entry with the last kernel command and the first statistics id
C24_Witness ==
    /\ IsSome(hist.propsRead)
    /\ Val(hist.propsRead).raw = << <<70, 1>>, <<512, 2>> >>
    /\ Cardinality(Val(hist.propsRead).result.dict) = 2

\* C25: the native close of an opened handle is never invoked twice,
\* whatever explicit closes and destructions happen.
C25_ClosedOnce == dev.closes <= 1

\* C26: when run_scan finds the abort flag set after a transponder's scan
\* has returned, the session ends with that step: nothing is stored for the
\* transponder, with or without a descriptor, and from the end of the
\* session on nothing changes (no further scan, no store).
C26_AbortEndsSession ==
    [][ /\ (flow = "scan" /\ pc = "rs_after" /\ abort) =>
              (pc' = "rs_done" /\ UNCHANGED <<idx, x, hist>>)
        /\ (flow = "scan" /\ pc = "rs_done") => UNCHANGED vars ]_vars

\* the session ended on abort with a descriptor in hand, unstored, and
\* transponders left in the list
C26_Witness ==
    /\ flow = "scan" /\ pc = "rs_done" /\ abort
    /\ idx < Len(file)
    /\ IsSome(handler) /\ Val(handler).tp = idx
    /\ idx \notin hist.storedOk
    /\ (idx + 1) \notin hist.scanned

\* The entry the selection rule names, as a position in the list (0: none):
\* the first exact match on channel name or virtual-channel label, else the
\* first case-insensitive match on the channel name, else, with a frequency
\* and dvr off, the first entry of that DTV_FREQUENCY. An entry without a
\* name, a label or a frequency matches nothing.
FirstOf(S) == IF S = {} THEN 0 ELSE CHOOSE i \in S : \A j \in S : i <= j

PriorityPick(f, r) ==
    LET Has(o, v) == IsSome(o) /\ Val(o) # "" /\ Val(o) = v
        HasLower(o, v) == IsSome(o) /\ Val(o) # "" /\ Lower(Val(o)) = Lower(v)
        exact == {i \in 1..Len(f) :
                    /\ IsSome(r.channel)
                    /\ \/ Has(f[i].channel, Val(r.channel))
                       \/ Has(f[i].vchannel, Val(r.channel))}
        lower == {i \in 1..Len(f) :
                    IsSome(r.channel) /\ HasLower(f[i].channel, Val(r.channel))}
        byFreq == {i \in 1..Len(f) :
                     /\ IsSome(r.freq) /\ ~r.dvr
                     /\ \E j \in 1..Len(f[i].props) :
                          f[i].props[j] = <<DTV_FREQUENCY, Val(r.freq)>>}
    IN  IF exact # {} THEN FirstOf(exact)
        ELSE IF lower # {} THEN FirstOf(lower)
        ELSE FirstOf(byFreq)

\* C28: in a file it could read, parse selects the entry of the priority
\* rule: first exact match (name or label), else first case-insensitive
\* name match, else (frequency given, dvr off) first frequency match; it
\* raises only when the rule names no entry.
C28_SelectionPriority ==
    (flow = "zap" /\ IsSome(hist.picked)) =>
        Val(hist.picked) = PriorityPick(file, req)

\* C29: when parse has read the file and no entry matches the request, it
\* raises and the flow ends there: the Property Store is as it was, no
\* dvb_set_compat_delivery_system and no dvb_fe_store_parm was called, and
\* neither the tune commit nor a filter start is ever reached.
C29_NoMatchLeavesStore ==
    (flow = "zap" /\ IsSome(hist.picked) /\ PriorityPick(file, req) = 0) =>
        /\ pc = "zp_raised"
        /\ entry = None
        /\ cache = HwInit /\ hw = HwInit
        /\ ~hist.compatCalled
        /\ hist.storedCmds = {}
        /\ ~hist.commitCalled
        /\ ~hist.filters

\* parse raised on a request for "b" without a frequency in a file of the
\* services "a" and "A"
C29_Witness ==
    /\ flow = "zap" /\ pc = "zp_raised"
    /\ hist.picked = Some(0)
    /\ req.channel = Some("b") /\ req.freq = None
    /\ Len(file) = 2
    /\ PriorityPick(file, req) = 0

====
